---- MODULE Spec2Model ----
(***************************************************************************)
(* Buffer pool manager, page guards, LRU-K replacer and disk scheduler of  *)
(* the BusTub storage core, as a state machine of client threads and the   *)
(* disk scheduler's background worker.                                     *)
(***************************************************************************)
EXTENDS Integers, Sequences, FiniteSets, TLC

\* ---------------------------------------------------------------- bounds
NumThreads == 2
NumFrames == 2
MaxPages == 2
MaxVal == 1
MaxTime == 6
K == 2
\* the replacer driven alone: its capacity and the accesses it records
ReplacerFrames == 3
MaxAccesses == 4
\* the disk scheduler driven alone: the requests its clients schedule
MaxRequests == 2
\* the B+Tree driven on its own buffer pool: frames, page ids, keys
MinTreeFrames == 3
TreeFrames == 4
MaxTreePages == 4
MaxKey == 3
\* BPlusTree::leaf_max_size_, BPlusTree::internal_max_size_
leaf_max_size_ == 2
internal_max_size_ == 3
\* the executors driven on their own inputs: rows per table, values of a column
MaxRows == 2
MaxCell == 2
MaxSortRows == 5
MaxInits == 2
MaxNexts == 3
MaxColumns == 2
MaxCalls == 3

\* ------------------------------------------------------ program constants
INVALID_PAGE_ID == -1
INVALID_FRAME_ID == -1
\* std::numeric_limits<size_t>::max(), within the range of TLC's integers
SIZE_MAX == 2147483647

Threads == 1..NumThreads
NoThread == 0
Frames == 0..(NumFrames - 1)
Pages == 0..(MaxPages - 1)
Values == 0..MaxVal

VARIABLES
  num_frames_,     \* BufferPoolManager::num_frames_, the constructor's argument
  next_page_id_,   \* BufferPoolManager::next_page_id_
  free_frames_,    \* BufferPoolManager::free_frames_ (std::list, FIFO)
  page_table_,     \* BufferPoolManager::page_table_ : page id -> frame id
  frames_,         \* FrameHeader per frame: pin_count_, is_dirty_, data_
  rwlatch_,        \* FrameHeader::rwlatch_ per frame: writer and readers
  bpm_latch_,      \* holder of the buffer pool mutex, NoThread when free
  replacer_,       \* LRUKReplacer: node_store_, current_timestamp_, curr_size_
  request_queue_,  \* DiskScheduler::request_queue_
  background_thread_, \* DiskScheduler::background_thread_: "running" or "exited"
  promise,         \* per thread: state of the promise of its disk request
  disk,            \* DiskManager: the bytes of every page on disk
  pc,              \* per thread: position inside the running operation
  op,              \* per thread: locals of the running operation
  guard,           \* per thread: the page guard the thread owns
  that,            \* per thread: a second guard object, the other side of a move
  ret,             \* what the last step returned to its caller ("-" if nothing)
  history          \* history variable, per page: the last bytes written through a
                   \* WritePageGuard, the thread that wrote them, and how far
                   \* they are on the way write, drop of the guard, eviction
                   \* (the specifications of the replacer and of the disk
                   \* scheduler alone keep their own history in it)

vars == <<num_frames_, next_page_id_, free_frames_, page_table_, frames_, rwlatch_, bpm_latch_,
          replacer_, request_queue_, background_thread_, promise, disk, pc, op, guard, that,
          ret, history>>

\* ------------------------------------------------------------ LRUKNode
NewNode == [history_ |-> <<>>, is_evictable_ |-> FALSE]

\* LRUKNode::AddTimestamp
AddTimestamp(node, timestamp) ==
  LET h == Append(node.history_, timestamp)
  IN  [node EXCEPT !.history_ = IF Len(h) > K THEN Tail(h) ELSE h]

\* GetBackwardDistance that measures from the most recent access (plain LRU)
GetBackwardDistanceLast(node, current_timestamp) ==
  IF Len(node.history_) < K THEN SIZE_MAX
  ELSE current_timestamp - node.history_[Len(node.history_)]

\* LRUKNode::GetBackwardDistance
GetBackwardDistance(node, current_timestamp) ==
  IF Len(node.history_) < K THEN SIZE_MAX
  ELSE current_timestamp - Head(node.history_)

\* --------------------------------------------------------- LRUKReplacer
\* LRUKReplacer::RecordAccess
RecordAccess(r, frame_id) ==
  LET ns == IF frame_id \in DOMAIN r.node_store_ THEN r.node_store_
            ELSE r.node_store_ @@ (frame_id :> NewNode)
  IN  [r EXCEPT !.node_store_ =
                   [ns EXCEPT ![frame_id] = AddTimestamp(@, r.current_timestamp_)],
                !.current_timestamp_ = @ + 1]

\* SetEvictable that does not compare the flag with its old value
SetEvictableAlways(r, frame_id, set_evictable) ==
  IF frame_id \notin DOMAIN r.node_store_ THEN r
  ELSE [r EXCEPT !.node_store_[frame_id].is_evictable_ = set_evictable,
                 !.curr_size_ = IF set_evictable THEN @ + 1 ELSE @ - 1]

\* LRUKReplacer::SetEvictable
SetEvictable(r, frame_id, set_evictable) ==
  IF frame_id \notin DOMAIN r.node_store_ THEN r
  ELSE IF r.node_store_[frame_id].is_evictable_ = set_evictable THEN r
  ELSE [r EXCEPT !.node_store_[frame_id].is_evictable_ = set_evictable,
                 !.curr_size_ = IF set_evictable THEN @ + 1 ELSE @ - 1]

\* one iteration of the loop of LRUKReplacer::Evict over node_store_
EvictVisit(acc, r, fid) ==
  LET cur_node == r.node_store_[fid]
      cur_dist == GetBackwardDistance(cur_node, r.current_timestamp_)
      cur_earliest_ts == IF cur_node.history_ = <<>> THEN SIZE_MAX
                         ELSE Head(cur_node.history_)
  IN  IF ~cur_node.is_evictable_ THEN acc
      ELSE IF cur_dist = SIZE_MAX
           THEN IF acc.evict_id = INVALID_FRAME_ID \/ cur_earliest_ts < acc.min_timestamp
                THEN [evict_id |-> fid, max_distance |-> cur_dist,
                      min_timestamp |-> cur_earliest_ts]
                ELSE acc
           ELSE IF cur_dist > acc.max_distance
                THEN [acc EXCEPT !.evict_id = fid, !.max_distance = cur_dist]
                ELSE acc

RECURSIVE EvictScan(_, _, _)
EvictScan(acc, r, order) ==
  IF order = <<>> THEN acc
  ELSE EvictScan(EvictVisit(acc, r, Head(order)), r, Tail(order))

\* the iteration orders an unordered_map over the set S of keys can have
Orders(S) == {o \in [1..Cardinality(S) -> S] : \A i, j \in DOMAIN o : i # j => o[i] # o[j]}

Erase(m, k) == [x \in DOMAIN m \ {k} |-> m[x]]

\* LRUKReplacer::Evict with node_store_ iterated in the given order:
\* the frame returned (INVALID_FRAME_ID for std::nullopt) and the replacer after
EvictIn(r, order) ==
  IF DOMAIN r.node_store_ = {} \/ r.curr_size_ = 0
  THEN [frame |-> INVALID_FRAME_ID, replacer |-> r]
  ELSE LET acc == EvictScan([evict_id |-> INVALID_FRAME_ID, max_distance |-> 0,
                             min_timestamp |-> SIZE_MAX], r, order)
       IN  IF acc.evict_id # INVALID_FRAME_ID
           THEN [frame |-> acc.evict_id,
                 replacer |-> [r EXCEPT !.node_store_ = Erase(@, acc.evict_id),
                                        !.curr_size_ = @ - 1]]
           ELSE [frame |-> INVALID_FRAME_ID, replacer |-> r]

Evict(r) == {EvictIn(r, order) : order \in Orders(DOMAIN r.node_store_)}

\* LRUKReplacer::Remove; thrown is TRUE when it throws bustub::Exception
Remove(r, frame_id) ==
  IF frame_id \notin DOMAIN r.node_store_ THEN [thrown |-> FALSE, replacer |-> r]
  ELSE IF ~r.node_store_[frame_id].is_evictable_ THEN [thrown |-> TRUE, replacer |-> r]
  ELSE [thrown |-> FALSE,
        replacer |-> [r EXCEPT !.node_store_ = Erase(@, frame_id), !.curr_size_ = @ - 1]]

\* LRUKReplacer::Size
Size(r) == r.curr_size_

\* ------------------------------------------------------------- helpers
Put(m, k, v) == [x \in DOMAIN m \cup {k} |-> IF x = k THEN v ELSE m[x]]

\* round_trip is a history field: the call was made for a page whose last written
\* bytes had been evicted after the writing guard was dropped
NoOp == [page_id |-> INVALID_PAGE_ID, frame_id |-> INVALID_FRAME_ID,
         old_page_id |-> INVALID_PAGE_ID, round_trip |-> FALSE]
NoGuard == [is_valid_ |-> FALSE, page_id_ |-> INVALID_PAGE_ID,
            frame_ |-> INVALID_FRAME_ID, is_write |-> FALSE, round_trip |-> FALSE]

\* FrameHeader::Reset
Reset(frame) == [pin_count_ |-> 0, is_dirty_ |-> FALSE, data_ |-> 0]

\* the loop "for (auto &it : page_table_) if (it.second == frame_id)": the page
\* ids it can stop at, INVALID_PAGE_ID when no page is mapped to the frame
OldPageIds(frame_id) ==
  LET hits == {p \in DOMAIN page_table_ : page_table_[p] = frame_id}
  IN  IF hits = {} THEN {INVALID_PAGE_ID} ELSE hits

\* BufferPoolManager::FlushPageUnsafe up to its first wait: does it schedule a write
FlushSchedules(page_id) ==
  /\ page_id \in DOMAIN page_table_
  /\ frames_[page_table_[page_id]].is_dirty_

\* the DiskRequest FlushPageUnsafe schedules; data_ points into the frame
FlushRequest(t, page_id) ==
  [is_write_ |-> TRUE, data_ |-> page_table_[page_id], page_id_ |-> page_id,
   callback_ |-> t]

ReadRequest(t, page_id, frame_id) ==
  [is_write_ |-> FALSE, data_ |-> frame_id, page_id_ |-> page_id, callback_ |-> t]

Idle(t) == pc[t] = "idle" /\ ~guard[t].is_valid_

\* history: a page whose writing guard was dropped leaves the page table because
\* NewPage or a cache miss takes its frame for another page
NoteEviction ==
  history' = [p \in Pages |->
                IF /\ history[p].stage = "dropped"
                   /\ p \in DOMAIN page_table_
                   /\ p \notin DOMAIN page_table_'
                THEN [history[p] EXCEPT !.stage = "evicted"]
                ELSE history[p]]

\* ------------------------------------------------------------- Init
\* BufferPoolManager::BufferPoolManager, for a pool of 1 to NumFrames frames
InitPool ==
  /\ num_frames_ \in 1..NumFrames
  /\ next_page_id_ = 0
  /\ free_frames_ = [i \in 1..num_frames_ |-> i - 1]
  /\ page_table_ = <<>>
  /\ frames_ = [f \in Frames |-> Reset(f)]
  /\ rwlatch_ = [f \in Frames |-> [writer |-> NoThread, readers |-> {}]]
  /\ bpm_latch_ = NoThread
  /\ replacer_ = [node_store_ |-> <<>>, current_timestamp_ |-> 0, curr_size_ |-> 0]
  /\ request_queue_ = <<>>
  /\ background_thread_ = "running"
  /\ promise = [t \in Threads |-> "none"]
  /\ disk = [p \in Pages |-> 0]
  /\ pc = [t \in Threads |-> "idle"]
  /\ op = [t \in Threads |-> NoOp]
  /\ guard = [t \in Threads |-> NoGuard]
  /\ that = [t \in Threads |-> NoGuard]
  /\ ret = "-"

Init ==
  /\ InitPool
  /\ history = [p \in Pages |-> [bytes |-> 0, writer |-> NoThread, stage |-> "none"]]

\* ------------------------------------------------- DiskScheduler worker
\* std::nullopt in the request queue: the request of no thread
NullOpt == [is_write_ |-> FALSE, data_ |-> INVALID_FRAME_ID, page_id_ |-> INVALID_PAGE_ID,
            callback_ |-> NoThread]

\* DiskManager::WritePage / ReadPage called by the worker for cur_request; with
\* io_ok FALSE the disk manager fails and transfers nothing
DiskManagerIO(cur_request, io_ok) ==
  IF ~io_ok THEN disk' = disk /\ frames_' = frames_
  ELSE IF cur_request.is_write_
  THEN /\ disk' = [disk EXCEPT ![cur_request.page_id_] = frames_[cur_request.data_].data_]
       /\ frames_' = frames_
  ELSE /\ frames_' = [frames_ EXCEPT ![cur_request.data_].data_ = disk[cur_request.page_id_]]
       /\ disk' = disk

\* a worker that fulfils the promise of writes only
ProcessRequestNoCallback(io_ok) ==
  /\ background_thread_ = "running"
  /\ request_queue_ # <<>>
  /\ Head(request_queue_) # NullOpt
  /\ LET cur_request == Head(request_queue_)
     IN  /\ request_queue_' = Tail(request_queue_)
         /\ DiskManagerIO(cur_request, io_ok)
         /\ promise' = IF cur_request.is_write_
                       THEN [promise EXCEPT ![cur_request.callback_] = "set"]
                       ELSE promise
  /\ ret' = "-"
  /\ UNCHANGED <<num_frames_, background_thread_, that, next_page_id_, free_frames_, page_table_,
                 rwlatch_, bpm_latch_, replacer_, pc, op, guard, history>>

\* DiskScheduler::StartWorkerThread, one iteration of its loop on a request
ProcessRequest(io_ok) ==
  /\ background_thread_ = "running"
  /\ request_queue_ # <<>>
  /\ Head(request_queue_) # NullOpt
  /\ LET cur_request == Head(request_queue_)
     IN  /\ request_queue_' = Tail(request_queue_)
         /\ DiskManagerIO(cur_request, io_ok)
         /\ promise' = [promise EXCEPT ![cur_request.callback_] = "set"]
  /\ ret' = "-"
  /\ UNCHANGED <<num_frames_, background_thread_, that, next_page_id_, free_frames_, page_table_,
                 rwlatch_, bpm_latch_, replacer_, pc, op, guard, history>>

\* the worker with a disk manager that performs every transfer
StartWorkerThread == ProcessRequest(TRUE)

\* DiskScheduler::StartWorkerThread getting std::nullopt: the worker returns
StartWorkerThreadReturn ==
  /\ background_thread_ = "running"
  /\ request_queue_ # <<>>
  /\ Head(request_queue_) = NullOpt
  /\ request_queue_' = Tail(request_queue_)
  /\ background_thread_' = "exited"
  /\ ret' = "-"
  /\ UNCHANGED <<num_frames_, that, next_page_id_, free_frames_, page_table_, frames_, rwlatch_,
                 bpm_latch_, replacer_, promise, disk, pc, op, guard, history>>

\* --------------------------------------------------------- NewPage
\* the tail of BufferPoolManager::NewPage, from frame_header->Reset() on
NewPageInstall(t, new_page_id, frame_id, rep, pt) ==
  /\ rep.current_timestamp_ < MaxTime
  /\ frames_' = [frames_ EXCEPT ![frame_id] = [Reset(@) EXCEPT !.pin_count_ = 1]]
  /\ page_table_' = Put(pt, new_page_id, frame_id)
  /\ replacer_' = SetEvictable(RecordAccess(rep, frame_id), frame_id, FALSE)
  /\ bpm_latch_' = NoThread
  /\ pc' = [pc EXCEPT ![t] = "idle"]
  /\ op' = [op EXCEPT ![t] = NoOp]
  /\ ret' = "NewPage:page_id"

\* BufferPoolManager::NewPage, from the lock to the return or to the wait for
\* the flush of a dirty victim
NewPage(t) ==
  /\ Idle(t)
  /\ bpm_latch_ = NoThread
  /\ next_page_id_ < MaxPages
  /\ next_page_id_' = next_page_id_ + 1
  /\ IF free_frames_ # <<>>
     THEN /\ free_frames_' = Tail(free_frames_)
          /\ NewPageInstall(t, next_page_id_, Head(free_frames_), replacer_, page_table_)
          /\ UNCHANGED <<request_queue_, promise>>
     ELSE \E ev \in Evict(replacer_) :
            IF ev.frame = INVALID_FRAME_ID
            THEN /\ ret' = "NewPage:INVALID_PAGE_ID"
                 /\ UNCHANGED <<free_frames_, page_table_, frames_, bpm_latch_, replacer_,
                                request_queue_, promise, pc, op>>
            ELSE \E old_page_id \in OldPageIds(ev.frame) :
                   IF FlushSchedules(old_page_id)
                   THEN /\ request_queue_' = Append(request_queue_, FlushRequest(t, old_page_id))
                        /\ promise' = [promise EXCEPT ![t] = "pending"]
                        /\ bpm_latch_' = t
                        /\ replacer_' = ev.replacer
                        /\ pc' = [pc EXCEPT ![t] = "NewPage:flush"]
                        /\ op' = [op EXCEPT ![t] = [NoOp EXCEPT !.page_id = next_page_id_,
                                                                !.frame_id = ev.frame,
                                                                !.old_page_id = old_page_id]]
                        /\ ret' = "-"
                        /\ UNCHANGED <<free_frames_, page_table_, frames_>>
                   ELSE /\ NewPageInstall(t, next_page_id_, ev.frame, ev.replacer,
                                          Erase(page_table_, old_page_id))
                        /\ UNCHANGED <<free_frames_, request_queue_, promise>>
  /\ UNCHANGED <<num_frames_, background_thread_, that, rwlatch_, disk, guard>>
  /\ NoteEviction

\* NewPage after flush_future.get() in FlushPageUnsafe returned
NewPageAfterFlush(t) ==
  /\ pc[t] = "NewPage:flush"
  /\ promise[t] = "set"
  /\ promise' = [promise EXCEPT ![t] = "none"]
  /\ NewPageInstall(t, op[t].page_id, op[t].frame_id, replacer_,
                    Erase(page_table_, op[t].old_page_id))
  /\ UNCHANGED <<num_frames_, background_thread_, that, next_page_id_, free_frames_, rwlatch_, request_queue_, disk, guard>>
  /\ NoteEviction

\* ------------------------------------------- CheckedWritePage / ReadPage
\* the cache-hit branch shared by CheckedWritePage and CheckedReadPage: pin only
\* when the pin count is 0, record the access, unlock, go on to the frame latch
PageHit(t, page_id, name) ==
  LET frame_id == page_table_[page_id]
  IN  /\ replacer_.current_timestamp_ < MaxTime
      /\ frames_' = [frames_ EXCEPT ![frame_id].pin_count_ = IF @ = 0 THEN @ + 1 ELSE @]
      /\ replacer_' = SetEvictable(RecordAccess(replacer_, frame_id), frame_id, FALSE)
      /\ bpm_latch_' = NoThread
      /\ pc' = [pc EXCEPT ![t] = name \o ":latch"]
      /\ op' = [op EXCEPT ![t] = [NoOp EXCEPT !.page_id = page_id, !.frame_id = frame_id,
                                    !.round_trip = history[page_id].stage = "evicted"]]
      /\ ret' = "-"
      /\ UNCHANGED <<free_frames_, page_table_, request_queue_, promise>>

\* CheckedWritePage from "auto frame_id = free_frames_.front()" to future.get():
\* the mapping and the replacer are updated and the mutex released before the wait
WriteLoad(t, page_id, rep, pt, ff, fr) ==
  LET frame_id == Head(ff)
  IN  /\ rep.current_timestamp_ < MaxTime
      /\ free_frames_' = Tail(ff)
      /\ frames_' = [fr EXCEPT ![frame_id] = [Reset(@) EXCEPT !.pin_count_ = 1]]
      /\ page_table_' = Put(pt, page_id, frame_id)
      /\ replacer_' = SetEvictable(RecordAccess(rep, frame_id), frame_id, FALSE)
      /\ request_queue_' = Append(request_queue_, ReadRequest(t, page_id, frame_id))
      /\ promise' = [promise EXCEPT ![t] = "pending"]
      /\ bpm_latch_' = NoThread
      /\ pc' = [pc EXCEPT ![t] = "CheckedWritePage:read"]
      /\ op' = [op EXCEPT ![t] = [NoOp EXCEPT !.page_id = page_id, !.frame_id = frame_id,
                                    !.round_trip = history[page_id].stage = "evicted"]]
      /\ ret' = "-"

\* CheckedReadPage from "auto frame_id = free_frames_.front()" to future.get():
\* the read is awaited with the mutex held, the mapping is not yet installed
ReadLoad(t, page_id, rep, pt, ff, fr) ==
  LET frame_id == Head(ff)
  IN  /\ free_frames_' = Tail(ff)
      /\ frames_' = [fr EXCEPT ![frame_id] = [Reset(@) EXCEPT !.pin_count_ = 1]]
      /\ page_table_' = pt
      /\ replacer_' = rep
      /\ request_queue_' = Append(request_queue_, ReadRequest(t, page_id, frame_id))
      /\ promise' = [promise EXCEPT ![t] = "pending"]
      /\ bpm_latch_' = t
      /\ pc' = [pc EXCEPT ![t] = "CheckedReadPage:read"]
      /\ op' = [op EXCEPT ![t] = [NoOp EXCEPT !.page_id = page_id, !.frame_id = frame_id,
                                    !.round_trip = history[page_id].stage = "evicted"]]
      /\ ret' = "-"

Load(t, page_id, name, rep, pt, ff, fr) ==
  IF name = "CheckedWritePage" THEN WriteLoad(t, page_id, rep, pt, ff, fr)
  ELSE ReadLoad(t, page_id, rep, pt, ff, fr)

\* the cache-miss branch shared by CheckedWritePage and CheckedReadPage up to the
\* return of std::nullopt, the wait for the victim's flush, or the wait for the read
PageMiss(t, page_id, name) ==
  IF free_frames_ # <<>>
  THEN Load(t, page_id, name, replacer_, page_table_, free_frames_, frames_)
  ELSE \E ev \in Evict(replacer_) :
         IF ev.frame = INVALID_FRAME_ID
         THEN /\ ret' = name \o ":nullopt"
              /\ UNCHANGED <<free_frames_, page_table_, frames_, bpm_latch_, replacer_,
                             request_queue_, promise, pc, op>>
         ELSE \E old_page_id \in OldPageIds(ev.frame) :
                IF FlushSchedules(old_page_id)
                THEN /\ request_queue_' = Append(request_queue_, FlushRequest(t, old_page_id))
                     /\ promise' = [promise EXCEPT ![t] = "pending"]
                     /\ bpm_latch_' = t
                     /\ replacer_' = ev.replacer
                     /\ pc' = [pc EXCEPT ![t] = name \o ":flush"]
                     /\ op' = [op EXCEPT ![t] = [page_id |-> page_id, frame_id |-> ev.frame,
                                                 old_page_id |-> old_page_id,
                                                 round_trip |->
                                                   history[page_id].stage = "evicted"]]
                     /\ ret' = "-"
                     /\ UNCHANGED <<free_frames_, page_table_, frames_>>
                ELSE Load(t, page_id, name, ev.replacer, Erase(page_table_, old_page_id),
                          Append(free_frames_, ev.frame), frames_)

\* the miss branch after flush_future.get() in FlushPageUnsafe returned
PageMissAfterFlush(t, name) ==
  /\ pc[t] = name \o ":flush"
  /\ promise[t] = "set"
  /\ Load(t, op[t].page_id, name, replacer_, Erase(page_table_, op[t].old_page_id),
          Append(free_frames_, op[t].frame_id),
          [frames_ EXCEPT ![op[t].frame_id].is_dirty_ = FALSE])
  /\ UNCHANGED <<num_frames_, background_thread_, that, next_page_id_, rwlatch_, disk, guard>>
  /\ NoteEviction

\* CheckedWritePage / CheckedReadPage from the call to the first wait or return
CheckedPage(t, page_id, name) ==
  /\ Idle(t)
  /\ IF page_id >= next_page_id_
     THEN /\ ret' = name \o ":invalid_id"
          /\ UNCHANGED <<free_frames_, page_table_, frames_, bpm_latch_, replacer_,
                         request_queue_, promise, pc, op>>
     ELSE /\ bpm_latch_ = NoThread
          /\ IF page_id \in DOMAIN page_table_
             THEN PageHit(t, page_id, name)
             ELSE PageMiss(t, page_id, name)
  /\ UNCHANGED <<num_frames_, background_thread_, that, next_page_id_, rwlatch_, disk, guard>>
  /\ NoteEviction

\* BufferPoolManager::CheckedWritePage
CheckedWritePage(t, page_id) == CheckedPage(t, page_id, "CheckedWritePage")

\* BufferPoolManager::CheckedReadPage
CheckedReadPage(t, page_id) == CheckedPage(t, page_id, "CheckedReadPage")

CheckedWritePageAfterFlush(t) == PageMissAfterFlush(t, "CheckedWritePage")

CheckedReadPageAfterFlush(t) == PageMissAfterFlush(t, "CheckedReadPage")

\* CheckedWritePage: future.get() returns, the mutex was released before it
CheckedWritePageAfterRead(t) ==
  /\ pc[t] = "CheckedWritePage:read"
  /\ promise[t] = "set"
  /\ promise' = [promise EXCEPT ![t] = "none"]
  /\ pc' = [pc EXCEPT ![t] = "CheckedWritePage:latch"]
  /\ ret' = "-"
  /\ UNCHANGED <<num_frames_, background_thread_, that, next_page_id_, free_frames_, page_table_, frames_, rwlatch_, bpm_latch_,
                 replacer_, request_queue_, disk, op, guard, history>>

\* CheckedWritePage: frame->rwlatch_.lock() and the WritePageGuard constructor,
\* which sets is_dirty_
CheckedWritePageLatch(t) ==
  /\ pc[t] = "CheckedWritePage:latch"
  /\ rwlatch_[op[t].frame_id] = [writer |-> NoThread, readers |-> {}]
  /\ rwlatch_' = [rwlatch_ EXCEPT ![op[t].frame_id].writer = t]
  /\ frames_' = [frames_ EXCEPT ![op[t].frame_id].is_dirty_ = TRUE]
  /\ guard' = [guard EXCEPT ![t] = [is_valid_ |-> TRUE, page_id_ |-> op[t].page_id,
                                    frame_ |-> op[t].frame_id, is_write |-> TRUE,
                                    round_trip |-> FALSE]]
  /\ pc' = [pc EXCEPT ![t] = "idle"]
  /\ op' = [op EXCEPT ![t] = NoOp]
  /\ ret' = "CheckedWritePage:guard"
  /\ UNCHANGED <<num_frames_, background_thread_, that, next_page_id_, free_frames_, page_table_, bpm_latch_, replacer_,
                 request_queue_, promise, disk, history>>

\* CheckedReadPage, hit branch: frame->rwlatch_.lock_shared() and the guard
CheckedReadPageLatch(t) ==
  /\ pc[t] = "CheckedReadPage:latch"
  /\ rwlatch_[op[t].frame_id].writer = NoThread
  /\ rwlatch_' = [rwlatch_ EXCEPT ![op[t].frame_id].readers = @ \cup {t}]
  /\ guard' = [guard EXCEPT ![t] = [is_valid_ |-> TRUE, page_id_ |-> op[t].page_id,
                                    frame_ |-> op[t].frame_id, is_write |-> FALSE,
                                    round_trip |-> op[t].round_trip]]
  /\ pc' = [pc EXCEPT ![t] = "idle"]
  /\ op' = [op EXCEPT ![t] = NoOp]
  /\ ret' = "CheckedReadPage:guard"
  /\ UNCHANGED <<num_frames_, background_thread_, that, next_page_id_, free_frames_, page_table_, frames_, bpm_latch_, replacer_,
                 request_queue_, promise, disk, history>>

\* CheckedReadPage, miss branch: future.get() returns and lock.unlock()
CheckedReadPageAfterRead(t) ==
  /\ pc[t] = "CheckedReadPage:read"
  /\ promise[t] = "set"
  /\ promise' = [promise EXCEPT ![t] = "none"]
  /\ bpm_latch_' = NoThread
  /\ pc' = [pc EXCEPT ![t] = "CheckedReadPage:map"]
  /\ ret' = "-"
  /\ UNCHANGED <<num_frames_, background_thread_, that, next_page_id_, free_frames_, page_table_, frames_, rwlatch_,
                 replacer_, request_queue_, disk, op, guard, history>>

\* CheckedReadPage, miss branch: rwlatch_.lock_shared() and page_table_[page_id] =
\* frame_id, written without the mutex.  When another thread is inside a critical
\* section of the mutex the write races with it: it takes effect or is lost.
CheckedReadPageMap(t) ==
  /\ pc[t] = "CheckedReadPage:map"
  /\ rwlatch_[op[t].frame_id].writer = NoThread
  /\ rwlatch_' = [rwlatch_ EXCEPT ![op[t].frame_id].readers = @ \cup {t}]
  /\ \/ page_table_' = Put(page_table_, op[t].page_id, op[t].frame_id)
     \/ /\ bpm_latch_ # NoThread
        /\ page_table_' = page_table_
  /\ pc' = [pc EXCEPT ![t] = "CheckedReadPage:record"]
  /\ ret' = "-"
  /\ UNCHANGED <<num_frames_, background_thread_, that, next_page_id_, free_frames_, frames_, bpm_latch_, replacer_,
                 request_queue_, promise, disk, op, guard, history>>

\* CheckedReadPage, miss branch: replacer_->RecordAccess, without the mutex
CheckedReadPageRecord(t) ==
  /\ pc[t] = "CheckedReadPage:record"
  /\ replacer_.current_timestamp_ < MaxTime
  /\ replacer_' = RecordAccess(replacer_, op[t].frame_id)
  /\ pc' = [pc EXCEPT ![t] = "CheckedReadPage:set_evictable"]
  /\ ret' = "-"
  /\ UNCHANGED <<num_frames_, background_thread_, that, next_page_id_, free_frames_, page_table_, frames_, rwlatch_, bpm_latch_,
                 request_queue_, promise, disk, op, guard, history>>

\* CheckedReadPage, miss branch: replacer_->SetEvictable(frame_id, false) and the guard
CheckedReadPageReturn(t) ==
  /\ pc[t] = "CheckedReadPage:set_evictable"
  /\ replacer_' = SetEvictable(replacer_, op[t].frame_id, FALSE)
  /\ guard' = [guard EXCEPT ![t] = [is_valid_ |-> TRUE, page_id_ |-> op[t].page_id,
                                    frame_ |-> op[t].frame_id, is_write |-> FALSE,
                                    round_trip |-> op[t].round_trip]]
  /\ pc' = [pc EXCEPT ![t] = "idle"]
  /\ op' = [op EXCEPT ![t] = NoOp]
  /\ ret' = "CheckedReadPage:guard"
  /\ UNCHANGED <<num_frames_, background_thread_, that, next_page_id_, free_frames_, page_table_, frames_, rwlatch_, bpm_latch_,
                 request_queue_, promise, disk, history>>

\* ------------------------------------------------------------ page guards
HoldsGuard(t) == pc[t] = "idle" /\ guard[t].is_valid_

\* a store through WritePageGuard::GetDataMut; every store to a page writes a
\* new version of its bytes, numbered from 1
WriteData(t, v) ==
  /\ HoldsGuard(t)
  /\ guard[t].is_write
  /\ v = history[guard[t].page_id_].bytes + 1
  /\ frames_' = [frames_ EXCEPT ![guard[t].frame_].data_ = v]
  /\ history' = [history EXCEPT ![guard[t].page_id_] =
                                   [bytes |-> v, writer |-> t, stage |-> "written"]]
  /\ ret' = "-"
  /\ UNCHANGED <<num_frames_, background_thread_, that, next_page_id_, free_frames_, page_table_, rwlatch_, bpm_latch_, replacer_,
                 request_queue_, promise, disk, pc, op, guard>>

\* ReadPageGuard::Drop / WritePageGuard::Drop up to the unlock of the frame latch:
\* is_valid_ = false, the pin count is decremented when positive, the latch released
DropUnpin(t) ==
  /\ HoldsGuard(t)
  /\ frames_' = [frames_ EXCEPT ![guard[t].frame_].pin_count_ = IF @ > 0 THEN @ - 1 ELSE @]
  /\ rwlatch_' = [rwlatch_ EXCEPT ![guard[t].frame_] =
                    IF guard[t].is_write THEN [@ EXCEPT !.writer = NoThread]
                    ELSE [@ EXCEPT !.readers = @ \ {t}]]
  /\ guard' = [guard EXCEPT ![t].is_valid_ = FALSE]
  /\ pc' = [pc EXCEPT ![t] = "Drop:replacer"]
  /\ ret' = "-"
  /\ UNCHANGED <<num_frames_, background_thread_, that, next_page_id_, free_frames_, page_table_, bpm_latch_, replacer_,
                 request_queue_, promise, disk, op, history>>

\* Drop, the block under the BPM mutex: RecordAccess and SetEvictable(pin count = 0)
DropReplacer(t) ==
  /\ pc[t] = "Drop:replacer"
  /\ bpm_latch_ = NoThread
  /\ replacer_.current_timestamp_ < MaxTime
  /\ replacer_' = SetEvictable(RecordAccess(replacer_, guard[t].frame_), guard[t].frame_,
                               frames_[guard[t].frame_].pin_count_ = 0)
  /\ guard' = [guard EXCEPT ![t] = NoGuard]
  /\ pc' = [pc EXCEPT ![t] = "idle"]
  /\ ret' = "Drop"
  /\ history' = [p \in Pages |->
                   IF /\ guard[t].is_write /\ guard[t].page_id_ = p
                      /\ history[p].writer = t /\ history[p].stage = "written"
                   THEN [history[p] EXCEPT !.stage = "dropped"]
                   ELSE history[p]]
  /\ UNCHANGED <<num_frames_, background_thread_, that, next_page_id_, free_frames_, page_table_, frames_, rwlatch_, bpm_latch_,
                 request_queue_, promise, disk, op>>

\* ReadPageGuard::Flush / WritePageGuard::Flush up to future.get(): the promise is
\* created, the write is scheduled only when the frame is dirty
Flush(t) ==
  /\ HoldsGuard(t)
  /\ promise' = [promise EXCEPT ![t] = "pending"]
  /\ request_queue_' =
       IF frames_[guard[t].frame_].is_dirty_
       THEN Append(request_queue_, [is_write_ |-> TRUE, data_ |-> guard[t].frame_,
                                    page_id_ |-> guard[t].page_id_, callback_ |-> t])
       ELSE request_queue_
  /\ pc' = [pc EXCEPT ![t] = "Flush:wait"]
  /\ ret' = "-"
  /\ UNCHANGED <<num_frames_, background_thread_, that, next_page_id_, free_frames_, page_table_, frames_, rwlatch_, bpm_latch_,
                 replacer_, disk, op, guard, history>>

\* Flush after future.get() returned: is_dirty_ = false
FlushReturn(t) ==
  /\ pc[t] = "Flush:wait"
  /\ promise[t] = "set"
  /\ promise' = [promise EXCEPT ![t] = "none"]
  /\ frames_' = [frames_ EXCEPT ![guard[t].frame_].is_dirty_ = FALSE]
  /\ pc' = [pc EXCEPT ![t] = "idle"]
  /\ ret' = "Flush"
  /\ UNCHANGED <<num_frames_, background_thread_, that, next_page_id_, free_frames_, page_table_, rwlatch_, bpm_latch_,
                 replacer_, request_queue_, disk, op, guard, history>>

\* ------------------------------------------------- FlushPage / FlushAllPages
\* BufferPoolManager::FlushPage: the lock and FlushPageUnsafe up to its return
\* or to flush_future.get()
FlushPage(t, page_id) ==
  /\ Idle(t)
  /\ bpm_latch_ = NoThread
  /\ IF FlushSchedules(page_id)
     THEN /\ request_queue_' = Append(request_queue_, FlushRequest(t, page_id))
          /\ promise' = [promise EXCEPT ![t] = "pending"]
          /\ bpm_latch_' = t
          /\ pc' = [pc EXCEPT ![t] = "FlushPage:flush"]
          /\ op' = [op EXCEPT ![t] = [NoOp EXCEPT !.page_id = page_id,
                                                  !.frame_id = page_table_[page_id]]]
          /\ ret' = "-"
     ELSE /\ ret' = IF page_id \in DOMAIN page_table_ THEN "FlushPage:true"
                    ELSE "FlushPage:false"
          /\ UNCHANGED <<request_queue_, promise, bpm_latch_, pc, op>>
  /\ UNCHANGED <<num_frames_, background_thread_, that, next_page_id_, free_frames_, page_table_, frames_, rwlatch_, replacer_,
                 disk, guard, history>>

\* FlushPage after flush_future.get() returned true: is_dirty_ = false, unlock
FlushPageAfterFlush(t) ==
  /\ pc[t] = "FlushPage:flush"
  /\ promise[t] = "set"
  /\ promise' = [promise EXCEPT ![t] = "none"]
  /\ frames_' = [frames_ EXCEPT ![op[t].frame_id].is_dirty_ = FALSE]
  /\ bpm_latch_' = NoThread
  /\ pc' = [pc EXCEPT ![t] = "idle"]
  /\ op' = [op EXCEPT ![t] = NoOp]
  /\ ret' = "FlushPage:true"
  /\ UNCHANGED <<num_frames_, background_thread_, that, next_page_id_, free_frames_, page_table_, rwlatch_, replacer_,
                 request_queue_, disk, guard, history>>

\* BufferPoolManager::FlushAllPages: the scoped_lock, then the loop over
\* page_table_ whose body calls FlushPage, which locks the same std::mutex again
FlushAllPages(t) ==
  /\ Idle(t)
  /\ bpm_latch_ = NoThread
  /\ IF DOMAIN page_table_ = {}
     THEN /\ ret' = "FlushAllPages"
          /\ UNCHANGED <<bpm_latch_, pc>>
     ELSE /\ bpm_latch_' = t
          /\ pc' = [pc EXCEPT ![t] = "FlushAllPages:relock"]
          /\ ret' = "-"
  /\ UNCHANGED <<num_frames_, background_thread_, that, next_page_id_, free_frames_, page_table_, frames_, rwlatch_, replacer_,
                 request_queue_, promise, disk, op, guard, history>>

\* Locking a std::mutex the thread already owns is undefined: the thread blocks
\* for ever (no step leaves "FlushAllPages:relock"), or lock() throws
\* std::system_error, which leaves FlushAllPages through the scoped_lock
FlushAllPagesThrow(t) ==
  /\ pc[t] = "FlushAllPages:relock"
  /\ bpm_latch_' = NoThread
  /\ pc' = [pc EXCEPT ![t] = "idle"]
  /\ ret' = "FlushAllPages:system_error"
  /\ UNCHANGED <<num_frames_, background_thread_, that, next_page_id_, free_frames_, page_table_, frames_, rwlatch_, replacer_,
                 request_queue_, promise, disk, op, guard, history>>

\* -------------------------------------------------------------- DeletePage
\* DeletePage that forgets to give the frame back to the free list
DeletePageEraseLeak(t, page_id, frame_id) ==
  /\ page_table_' = Erase(page_table_, page_id)
  /\ frames_' = [frames_ EXCEPT ![frame_id] = Reset(@)]
  /\ free_frames_' = free_frames_
  /\ bpm_latch_' = NoThread
  /\ pc' = [pc EXCEPT ![t] = "idle"]
  /\ op' = [op EXCEPT ![t] = NoOp]
  /\ ret' = "DeletePage:true"

\* the tail of BufferPoolManager::DeletePage, from page_table_.erase on
DeletePageErase(t, page_id, frame_id) ==
  /\ page_table_' = Erase(page_table_, page_id)
  /\ frames_' = [frames_ EXCEPT ![frame_id] = Reset(@)]
  /\ free_frames_' = Append(free_frames_, frame_id)
  /\ bpm_latch_' = NoThread
  /\ pc' = [pc EXCEPT ![t] = "idle"]
  /\ op' = [op EXCEPT ![t] = NoOp]
  /\ ret' = "DeletePage:true"

\* BufferPoolManager::DeletePage up to its return or to the wait in FlushPageUnsafe
DeletePage(t, page_id) ==
  /\ Idle(t)
  /\ bpm_latch_ = NoThread
  /\ IF page_id \notin DOMAIN page_table_
     THEN /\ ret' = "DeletePage:true"
          /\ UNCHANGED <<free_frames_, page_table_, frames_, bpm_latch_, request_queue_,
                         promise, pc, op>>
     ELSE IF frames_[page_table_[page_id]].pin_count_ > 0
     THEN /\ ret' = "DeletePage:false"
          /\ UNCHANGED <<free_frames_, page_table_, frames_, bpm_latch_, request_queue_,
                         promise, pc, op>>
     ELSE IF FlushSchedules(page_id)
     THEN /\ request_queue_' = Append(request_queue_, FlushRequest(t, page_id))
          /\ promise' = [promise EXCEPT ![t] = "pending"]
          /\ bpm_latch_' = t
          /\ pc' = [pc EXCEPT ![t] = "DeletePage:flush"]
          /\ op' = [op EXCEPT ![t] = [NoOp EXCEPT !.page_id = page_id,
                                                  !.frame_id = page_table_[page_id]]]
          /\ ret' = "-"
          /\ UNCHANGED <<free_frames_, page_table_, frames_>>
     ELSE /\ DeletePageErase(t, page_id, page_table_[page_id])
          /\ UNCHANGED <<request_queue_, promise>>
  /\ UNCHANGED <<num_frames_, background_thread_, that, next_page_id_, rwlatch_, replacer_, disk, guard, history>>

\* DeletePage after flush_future.get() in FlushPageUnsafe returned true
DeletePageAfterFlush(t) ==
  /\ pc[t] = "DeletePage:flush"
  /\ promise[t] = "set"
  /\ promise' = [promise EXCEPT ![t] = "none"]
  /\ DeletePageErase(t, op[t].page_id, op[t].frame_id)
  /\ UNCHANGED <<num_frames_, background_thread_, that, next_page_id_, rwlatch_, replacer_, request_queue_, disk, guard, history>>

Next ==
  \/ StartWorkerThread
  \/ \E t \in Threads : NewPage(t)
  \/ \E t \in Threads : NewPageAfterFlush(t)
  \/ \E t \in Threads, p \in Pages : CheckedWritePage(t, p)
  \/ \E t \in Threads : CheckedWritePageAfterFlush(t)
  \/ \E t \in Threads : CheckedWritePageAfterRead(t)
  \/ \E t \in Threads : CheckedWritePageLatch(t)
  \/ \E t \in Threads, p \in Pages : CheckedReadPage(t, p)
  \/ \E t \in Threads : CheckedReadPageAfterFlush(t)
  \/ \E t \in Threads : CheckedReadPageAfterRead(t)
  \/ \E t \in Threads : CheckedReadPageLatch(t)
  \/ \E t \in Threads : CheckedReadPageMap(t)
  \/ \E t \in Threads : CheckedReadPageRecord(t)
  \/ \E t \in Threads : CheckedReadPageReturn(t)
  \/ \E t \in Threads, v \in 1..MaxVal : WriteData(t, v)
  \/ \E t \in Threads : DropUnpin(t)
  \/ \E t \in Threads : DropReplacer(t)
  \/ \E t \in Threads : Flush(t)
  \/ \E t \in Threads : FlushReturn(t)
  \/ \E t \in Threads, p \in Pages : FlushPage(t, p)
  \/ \E t \in Threads : FlushPageAfterFlush(t)
  \/ \E t \in Threads : FlushAllPages(t)
  \/ \E t \in Threads : FlushAllPagesThrow(t)
  \/ \E t \in Threads, p \in Pages : DeletePage(t, p)
  \/ \E t \in Threads : DeletePageAfterFlush(t)

Spec == Init /\ [][Next]_vars

\* ================================================================ claims
\* the valid guards on page p, named by the threads that own them
GuardsOn(p) == {t \in Threads : guard[t].is_valid_ /\ guard[t].page_id_ = p}

Evictable(f) ==
  /\ f \in DOMAIN replacer_.node_store_
  /\ replacer_.node_store_[f].is_evictable_

PoolFrames == 0..(num_frames_ - 1)

\* C1: while a ReadPageGuard or WritePageGuard on page P is outstanding, the frame
\* the guard was given still holds P (it was not taken as a victim and remapped)
\* and is not marked evictable in the replacer.
C1_GuardedFrameNotEvictable ==
  \A t \in Threads :
    guard[t].is_valid_ =>
      /\ guard[t].page_id_ \in DOMAIN page_table_
      /\ page_table_[guard[t].page_id_] = guard[t].frame_
      /\ ~Evictable(guard[t].frame_)

\* C2: for every page, either at most one WritePageGuard and no ReadPageGuard is
\* outstanding, or only ReadPageGuards are.
C2_WriteGuardExclusive ==
  \A t1, t2 \in Threads :
    (t1 # t2 /\ guard[t1].is_valid_ /\ guard[t2].is_valid_
       /\ guard[t1].page_id_ = guard[t2].page_id_)
      => (~guard[t1].is_write /\ ~guard[t2].is_write)

\* C3: every page in the page table is mapped to a frame that is not in the free
\* list and whose pin count is at least the number of outstanding guards on the page.
C3_PinCountCoversGuards ==
  \A p \in DOMAIN page_table_ :
    /\ \A i \in DOMAIN free_frames_ : free_frames_[i] # page_table_[p]
    /\ frames_[page_table_[p]].pin_count_ >= Cardinality(GuardsOn(p))

\* C4: whenever no thread holds the BPM mutex, every frame of the pool is in
\* exactly one of the free list and the image of the page table, no frame is the
\* image of two page ids, and no page is loaded into two different frames.
C4_FramePartition ==
  bpm_latch_ = NoThread =>
    /\ \A f \in PoolFrames :
         (\E i \in DOMAIN free_frames_ : free_frames_[i] = f)
           # (\E p \in DOMAIN page_table_ : page_table_[p] = f)
    /\ \A p1, p2 \in DOMAIN page_table_ : page_table_[p1] = page_table_[p2] => p1 = p2
    /\ \A t1, t2 \in Threads :
         (guard[t1].is_valid_ /\ guard[t2].is_valid_
            /\ guard[t1].page_id_ = guard[t2].page_id_)
           => guard[t1].frame_ = guard[t2].frame_

\* C5: bytes written into page P through a WritePageGuard, whose guard was then
\* dropped and whose page was then evicted to make room for another page, are
\* the bytes a ReadPageGuard acquired afterwards sees.
C5_RoundTrip ==
  \A t \in Threads :
    (/\ guard[t].is_valid_ /\ ~guard[t].is_write /\ guard[t].round_trip
     /\ history[guard[t].page_id_].stage = "evicted")
      => frames_[guard[t].frame_].data_ = history[guard[t].page_id_].bytes

\* C6: whenever page P leaves the page table, because its frame is repurposed
\* for another page or because P is deleted, the copy of P on disk equals the
\* last bytes written through a WritePageGuard on P.
C6_NoLostWrite ==
  [][\A p \in Pages :
       (p \in DOMAIN page_table_ /\ p \notin DOMAIN page_table_')
         => disk'[p] = history'[p].bytes]_vars

DiskWaits == {"NewPage:flush", "CheckedWritePage:flush", "CheckedReadPage:flush",
              "CheckedWritePage:read", "CheckedReadPage:read"}
LatchWaits == {"CheckedWritePage:latch", "CheckedReadPage:latch", "CheckedReadPage:map"}

\* C7: no thread inside NewPage, CheckedReadPage, CheckedWritePage or a guard's
\* Drop waits for a frame latch or for the completion of a disk request while it
\* holds the BPM mutex.
C7_NoWaitUnderMutex ==
  \A t \in Threads : pc[t] \in DiskWaits \cup LatchWaits => bpm_latch_ # t

\* C8: FlushAllPages terminates and releases the BPM mutex (in particular the
\* calling thread never waits for the mutex it holds itself), and when it has
\* returned every resident page is clean with its bytes on disk.
C8_FlushAllPagesReturns ==
  /\ \A t \in Threads : ~(pc[t] = "FlushAllPages:relock" /\ bpm_latch_ = t)
  /\ (ret = "FlushAllPages") =>
       \A p \in DOMAIN page_table_ :
         /\ ~frames_[page_table_[p]].is_dirty_
         /\ disk[p] = frames_[page_table_[p]].data_

\* C9: Flush on a valid guard always returns (the completion it waits for belongs
\* to a request that was scheduled), and when it returns the frame is clean and
\* the page's bytes on disk equal the frame's bytes.
C9_GuardFlushReturns ==
  /\ [](\A t \in Threads :
          (pc[t] = "Flush:wait" /\ promise[t] = "pending")
            => \E i \in DOMAIN request_queue_ : request_queue_[i].callback_ = t)
  /\ [][\A t \in Threads :
          (pc[t] = "Flush:wait" /\ pc'[t] = "idle")
            => /\ ~frames_'[guard[t].frame_].is_dirty_
               /\ disk'[guard[t].page_id_] = frames_'[guard[t].frame_].data_]_vars

OutOfMemory == {"NewPage:INVALID_PAGE_ID", "CheckedWritePage:nullopt",
                "CheckedReadPage:nullopt"}
NoFrameAvailable ==
  /\ free_frames_ = <<>>
  /\ \A f \in DOMAIN replacer_.node_store_ : ~replacer_.node_store_[f].is_evictable_
PinCounts == [f \in Frames |-> frames_[f].pin_count_]

\* C10: when the free list is empty and no frame is evictable, NewPage returns
\* INVALID_PAGE_ID and CheckedReadPage / CheckedWritePage of a non-resident page
\* return std::nullopt (no call obtains a frame), and a call that fails this way
\* leaves page table, free list, pin counts, replacer and next_page_id_ unchanged.
C10_OutOfMemoryNoMutation ==
  [][
      /\ (NoFrameAvailable /\ bpm_latch_ = NoThread) =>
           (/\ ret' # "NewPage:page_id"
            /\ \A t \in Threads : (pc[t] = "idle" => pc'[t] \notin DiskWaits))
      /\ (ret' \in OutOfMemory) =>
           UNCHANGED <<page_table_, free_frames_, PinCounts, replacer_, next_page_id_>>
    ]_vars

\* ------------------------------------------------- DeletePage, one caller
\* the buffer pool used by one thread: pages are created, written through a
\* WritePageGuard, dropped and deleted
DeleteNext ==
  \/ StartWorkerThread
  \/ NewPage(1)
  \/ NewPageAfterFlush(1)
  \/ \E p \in Pages : CheckedWritePage(1, p)
  \/ CheckedWritePageAfterFlush(1)
  \/ CheckedWritePageAfterRead(1)
  \/ CheckedWritePageLatch(1)
  \/ \E v \in 1..MaxVal : WriteData(1, v)
  \/ DropUnpin(1)
  \/ DropReplacer(1)
  \/ \E p \in Pages : DeletePage(1, p)
  \/ DeletePageAfterFlush(1)

DeleteSpec == Init /\ [][DeleteNext]_vars

\* what DeletePage(t, p) has to have done when it returns true for a resident page
\* whose frame was frame_id
Deleted(p, frame_id) ==
  /\ ret' = "DeletePage:true"
  /\ p \notin DOMAIN page_table_'
  /\ \A q \in DOMAIN page_table_ \ {p} :
       q \in DOMAIN page_table_' /\ page_table_'[q] = page_table_[q]
  /\ free_frames_' = Append(free_frames_, frame_id)
  /\ bpm_latch_' = NoThread

\* C11: DeletePage(P) returns true and changes nothing when P is not resident;
\* returns false and changes nothing when P is resident with pin count > 0;
\* otherwise it writes P to disk if the frame is dirty (the write is scheduled,
\* and has reached disk when DeletePage returns), removes P from the page table,
\* appends its frame to the free list and returns true.
C11_DeletePageContract ==
  [][\A t \in Threads, p \in Pages :
       /\ DeletePage(t, p) =>
            IF p \notin DOMAIN page_table_
            THEN /\ ret' = "DeletePage:true"
                 /\ UNCHANGED <<num_frames_, background_thread_, that, next_page_id_, free_frames_, page_table_,
                                frames_, rwlatch_, bpm_latch_, replacer_, request_queue_,
                                background_thread_, promise, disk, pc, op, guard>>
            ELSE IF frames_[page_table_[p]].pin_count_ > 0
            THEN /\ ret' = "DeletePage:false"
                 /\ UNCHANGED <<num_frames_, background_thread_, that, next_page_id_, free_frames_, page_table_,
                                frames_, rwlatch_, bpm_latch_, replacer_, request_queue_,
                                background_thread_, promise, disk, pc, op, guard>>
            ELSE IF frames_[page_table_[p]].is_dirty_
            THEN /\ request_queue_' = Append(request_queue_,
                                             [is_write_ |-> TRUE, data_ |-> page_table_[p],
                                              page_id_ |-> p, callback_ |-> t])
                 /\ pc'[t] = "DeletePage:flush"
                 /\ UNCHANGED <<page_table_, free_frames_, frames_, disk>>
            ELSE /\ Deleted(p, page_table_[p])
                 /\ UNCHANGED <<request_queue_, disk>>
       /\ (DeletePageAfterFlush(t) /\ op[t].page_id = p) =>
            /\ Deleted(p, op[t].frame_id)
            /\ \A i \in DOMAIN request_queue_ : request_queue_[i].callback_ # t
            /\ disk[p] = frames_[op[t].frame_id].data_
    ]_vars

\* C11 witness: a dirty, unpinned page was deleted after its bytes reached disk
C11_Witness ==
  /\ ret = "DeletePage:true"
  /\ page_table_ = <<>>
  /\ \E p \in Pages : disk[p] # 0
  /\ Len(free_frames_) = num_frames_


\* ------------------------------------------------------ the replacer alone
\* LRUKReplacer driven directly by RecordAccess, SetEvictable, Evict and Remove
\* calls. history is here, per frame, the timestamps of all the accesses recorded
\* since the frame was last evicted or removed.
\* the frame ids a replacer of size ReplacerFrames accepts
FrameIds == 0..(ReplacerFrames - 1)

ReplacerInit ==
  /\ InitPool
  /\ num_frames_ = NumFrames
  /\ history = [f \in FrameIds |-> <<>>]

ReplacerUnchanged ==
  UNCHANGED <<num_frames_, background_thread_, that, next_page_id_, free_frames_, page_table_,
              frames_, rwlatch_, bpm_latch_, request_queue_, promise, disk, pc, op, guard>>

ReplacerRecordAccess(frame_id) ==
  /\ replacer_.current_timestamp_ < MaxAccesses
  /\ replacer_' = RecordAccess(replacer_, frame_id)
  /\ history' = [history EXCEPT ![frame_id] = Append(@, replacer_.current_timestamp_)]
  /\ ret' = "RecordAccess"
  /\ ReplacerUnchanged

ReplacerSetEvictable(frame_id, set_evictable) ==
  /\ replacer_' = SetEvictable(replacer_, frame_id, set_evictable)
  /\ ret' = "SetEvictable"
  /\ history' = history
  /\ ReplacerUnchanged

ReplacerEvict ==
  /\ \E out \in Evict(replacer_) :
       /\ replacer_' = out.replacer
       /\ ret' = IF out.frame = INVALID_FRAME_ID THEN "Evict:nullopt" ELSE "Evict:frame"
       /\ history' = [f \in FrameIds |-> IF f = out.frame THEN <<>> ELSE history[f]]
  /\ ReplacerUnchanged

ReplacerRemove(frame_id) ==
  /\ LET out == Remove(replacer_, frame_id)
     IN  /\ replacer_' = out.replacer
         /\ ret' = IF out.thrown THEN "Remove:exception" ELSE "Remove"
         /\ history' = [history EXCEPT ![frame_id] =
                          IF frame_id \in DOMAIN out.replacer.node_store_ THEN @ ELSE <<>>]
  /\ ReplacerUnchanged

ReplacerNext ==
  \/ \E f \in FrameIds : ReplacerRecordAccess(f)
  \/ \E f \in FrameIds, b \in BOOLEAN : ReplacerSetEvictable(f, b)
  \/ ReplacerEvict
  \/ \E f \in FrameIds : ReplacerRemove(f)

ReplacerSpec == ReplacerInit /\ [][ReplacerNext]_vars

\* the frames the replacer tracks as evictable
EvictableFrames == {f \in DOMAIN replacer_.node_store_ : replacer_.node_store_[f].is_evictable_}

\* backward k-distance of frame f from the accesses recorded for it: the time
\* since its K-th most recent access, +infinity (SIZE_MAX) with fewer than K
BackwardKDistance(f) ==
  IF Len(history[f]) < K THEN SIZE_MAX
  ELSE replacer_.current_timestamp_ - history[f][Len(history[f]) - K + 1]

\* C12: Evict returns std::nullopt exactly when no frame is evictable; otherwise
\* it returns (and stops tracking) an evictable frame whose backward k-distance
\* is the largest among the evictable frames, a frame with fewer than K recorded
\* accesses having distance +infinity; and when that distance is +infinity the
\* frame returned is, among the evictable frames at +infinity, the one whose
\* first recorded access is the oldest.
C12_EvictLargestDistance ==
  [][ReplacerEvict =>
       IF EvictableFrames = {}
       THEN ret' = "Evict:nullopt" /\ replacer_' = replacer_
       ELSE /\ ret' = "Evict:frame"
            /\ \E f \in EvictableFrames :
                 /\ DOMAIN replacer_'.node_store_ = DOMAIN replacer_.node_store_ \ {f}
                 /\ \A g \in EvictableFrames : BackwardKDistance(g) <= BackwardKDistance(f)
                 /\ BackwardKDistance(f) = SIZE_MAX =>
                      \A g \in EvictableFrames \ {f} :
                        BackwardKDistance(g) = SIZE_MAX => history[f][1] < history[g][1]
    ]_vars

\* C12 witness: Evict has just chosen between a frame at +infinity and frames
\* with K accesses, and between two frames at +infinity
C12_Witness ==
  /\ ret = "Evict:frame"
  /\ \E g \in EvictableFrames : BackwardKDistance(g) # SIZE_MAX
  /\ \E g \in EvictableFrames : BackwardKDistance(g) = SIZE_MAX

\* C13: after any sequence of RecordAccess, SetEvictable, Evict and Remove calls,
\* Size() is the number of tracked frames whose evictable flag is true; and
\* SetEvictable with the flag's current value, or with a frame id the replacer
\* does not track, leaves Size() (and the replacer) unchanged.
C13_SizeCountsEvictable ==
  /\ [](Size(replacer_) = Cardinality(EvictableFrames))
  /\ [][\A f \in FrameIds, b \in BOOLEAN :
          (/\ ReplacerSetEvictable(f, b)
           /\ \/ f \notin DOMAIN replacer_.node_store_
              \/ replacer_.node_store_[f].is_evictable_ = b)
            => Size(replacer_') = Size(replacer_) /\ replacer_' = replacer_]_vars

\* C13 witness: frames were made evictable, one was evicted, one was removed,
\* and an evictable and a non-evictable frame are tracked
C13_Witness ==
  /\ ret = "Remove"
  /\ Size(replacer_) = 1
  /\ Cardinality(DOMAIN replacer_.node_store_) = 2
  /\ replacer_.current_timestamp_ >= 3


\* ------------------------------------------------- the disk scheduler alone
\* DiskScheduler used directly by client threads: each has its own buffer in
\* frames_, fills it with bytes no request carried before (for a write),
\* schedules a request on it and waits for the future; one thread destroys
\* the scheduler. history is here the sequence of the requests in the order of
\* their Schedule calls, each write with its bytes.
DiskInit ==
  /\ InitPool
  /\ num_frames_ = NumFrames
  /\ history = <<>>

DiskUnchanged ==
  UNCHANGED <<num_frames_, that, next_page_id_, free_frames_, page_table_, rwlatch_, bpm_latch_,
              replacer_, op, guard>>

\* DiskScheduler::Schedule that puts the request at the front of the queue
ScheduleFront(queue, r) == <<r>> \o queue

\* DiskScheduler::Schedule: request_queue_.Put(std::move(r))
Schedule(queue, r) == Append(queue, r)

\* ~DiskScheduler has been entered
ShutdownBegun == \E t \in Threads : pc[t] \in {"~DiskScheduler:join", "~DiskScheduler:done"}

\* the buffer of client t
Buffer(t) == (t - 1) % NumFrames

\* a client fills its buffer (for a write) and calls Schedule
DiskSchedule(t, is_write, page_id) ==
  /\ pc[t] = "idle"
  /\ ~ShutdownBegun
  /\ Len(history) < MaxRequests
  /\ LET buf == Buffer(t)
         v == IF is_write THEN Len(history) + 1 ELSE 0
         r == [is_write_ |-> is_write, data_ |-> buf, page_id_ |-> page_id, callback_ |-> t]
     IN  /\ request_queue_' = Schedule(request_queue_, r)
         /\ history' = Append(history, [request |-> r, bytes |-> v])
         /\ frames_' = IF is_write THEN [frames_ EXCEPT ![buf].data_ = v] ELSE frames_
  /\ promise' = [promise EXCEPT ![t] = "pending"]
  /\ pc' = [pc EXCEPT ![t] = "Schedule:wait"]
  /\ ret' = "Schedule"
  /\ UNCHANGED <<background_thread_, disk>>
  /\ DiskUnchanged

\* the client's future.get() returns
DiskFutureGet(t) ==
  /\ pc[t] = "Schedule:wait"
  /\ promise[t] = "set"
  /\ promise' = [promise EXCEPT ![t] = "none"]
  /\ pc' = [pc EXCEPT ![t] = "idle"]
  /\ ret' = "future.get:true"
  /\ UNCHANGED <<request_queue_, background_thread_, frames_, disk, history>>
  /\ DiskUnchanged

\* DiskScheduler::~DiskScheduler up to background_thread_->join()
DiskDestroy(t) ==
  /\ pc[t] = "idle"
  /\ ~ShutdownBegun
  /\ request_queue_' = Schedule(request_queue_, NullOpt)
  /\ pc' = [pc EXCEPT ![t] = "~DiskScheduler:join"]
  /\ ret' = "-"
  /\ UNCHANGED <<background_thread_, frames_, promise, disk, history>>
  /\ DiskUnchanged

\* DiskScheduler::~DiskScheduler: join() returns
DiskJoin(t) ==
  /\ pc[t] = "~DiskScheduler:join"
  /\ background_thread_ = "exited"
  /\ pc' = [pc EXCEPT ![t] = "~DiskScheduler:done"]
  /\ ret' = "~DiskScheduler"
  /\ UNCHANGED <<request_queue_, background_thread_, frames_, promise, disk, history>>
  /\ DiskUnchanged

DiskClients ==
  \/ \E t \in Threads, is_write \in BOOLEAN, p \in Pages : DiskSchedule(t, is_write, p)
  \/ \E t \in Threads : DiskFutureGet(t)
  \/ \E t \in Threads : DiskDestroy(t)
  \/ \E t \in Threads : DiskJoin(t)

DiskNext ==
  \/ DiskClients
  \/ StartWorkerThread
  \/ StartWorkerThreadReturn

DiskSpec == DiskInit /\ [][DiskNext]_vars

\* the worker is a running thread: it takes the next request whenever there is
\* one, and the thread in the destructor returns from join() once it has exited
DiskFairSpec ==
  /\ DiskSpec
  /\ WF_vars(StartWorkerThread)
  /\ WF_vars(StartWorkerThreadReturn)
  /\ \A t \in Threads : WF_vars(DiskJoin(t))

\* the scheduler over a disk manager that may fail any transfer
DiskFailNext ==
  \/ DiskClients
  \/ \E io_ok \in BOOLEAN : ProcessRequest(io_ok)
  \/ StartWorkerThreadReturn

DiskFailSpec == DiskInit /\ [][DiskFailNext]_vars

\* the requests still queued, without the stop sentinel
Queued == SelectSeq(request_queue_, LAMBDA r : r # NullOpt)

\* positions in history of the writes to page p the worker has taken so far
WritesDone(p) ==
  {i \in 1..(Len(history) - Len(Queued)) :
     history[i].request.is_write_ /\ history[i].request.page_id_ = p}

Last(S) == CHOOSE i \in S : \A j \in S : j <= i

\* C14: the worker takes the requests in the order of their Schedule calls (the
\* queue is always the tail of that order, nothing is skipped or overtaken),
\* so the bytes of a page on disk are those of the last write to it the worker
\* has taken, which is the write scheduled last once the queue is drained.
C14_FifoOrder ==
  /\ Len(Queued) <= Len(history)
  /\ \A i \in 1..Len(Queued) :
       Queued[i] = history[Len(history) - Len(Queued) + i].request
  /\ \A p \in Pages :
       WritesDone(p) # {} => disk[p] = history[Last(WritesDone(p))].bytes

\* C14 witness: two writes of different bytes to one page were scheduled and
\* both have reached disk
C14_Witness ==
  /\ request_queue_ = <<>>
  /\ \E i, j \in DOMAIN history :
       /\ i < j
       /\ history[i].request.is_write_ /\ history[j].request.is_write_
       /\ history[i].request.page_id_ = history[j].request.page_id_
       /\ history[i].bytes # history[j].bytes
       /\ \A k \in DOMAIN history : k > j => ~history[k].request.is_write_


\* C15: every request scheduled before the destructor is entered has its promise
\* fulfilled, and only once (a promise is set only while pending, by the step
\* that takes its request off the queue); the worker exits only after it has
\* taken every request put before the stop sentinel; and ~DiskScheduler returns.
C15_AllRequestsCompleted ==
  /\ \A t \in Threads : (promise[t] = "pending") ~> (promise[t] = "set")
  /\ \A t \in Threads : (pc[t] = "~DiskScheduler:join") ~> (pc[t] = "~DiskScheduler:done")
  /\ [](background_thread_ = "exited" =>
          /\ request_queue_ = <<>>
          /\ \A t \in Threads : promise[t] # "pending")
  /\ [][\A t \in Threads :
          (promise'[t] = "set" /\ promise[t] # "set") =>
            /\ promise[t] = "pending"
            /\ Head(request_queue_).callback_ = t
            /\ \A i \in DOMAIN request_queue_' : request_queue_'[i].callback_ # t]_vars

\* C15 witness: the scheduler was destroyed after MaxRequests requests, with a
\* request still queued when the destructor put the stop sentinel
C15_Witness ==
  /\ \E t \in Threads : pc[t] = "~DiskScheduler:done"
  /\ Len(history) = MaxRequests
  /\ \E t \in Threads : pc[t] = "Schedule:wait" /\ promise[t] = "set"

\* C16: the promise of a request is fulfilled with true only when the disk
\* manager performed the transfer (a write's bytes are on disk, a read's bytes
\* are in the buffer); when the disk manager failed it is fulfilled with false.
C16_CompletionReportsFailure ==
  [][\A t \in Threads :
       (promise[t] = "pending" /\ promise'[t] = "set") =>
         LET r == Head(request_queue_)
         IN  IF r.is_write_ THEN disk'[r.page_id_] = frames_[r.data_].data_
             ELSE frames_'[r.data_].data_ = disk[r.page_id_]]_vars


\* ---------------------------------------------- moving and dropping guards
\* One client thread with two guard objects of one type: guard[t], which the
\* buffer pool's calls return into, and that[t]. Guards are moved between the
\* two by the move constructor and by move assignment, and either is dropped.

\* a move constructor that leaves the moved-from guard as it was
MoveConstructCopy(t) ==
  /\ pc[t] = "idle"
  /\ ~that[t].is_valid_
  /\ that' = [that EXCEPT ![t] = guard[t]]
  /\ guard' = guard
  /\ ret' = "move"
  /\ UNCHANGED <<num_frames_, background_thread_, next_page_id_, free_frames_, page_table_,
                 frames_, rwlatch_, bpm_latch_, replacer_, request_queue_, promise, disk, pc,
                 op, history>>

\* ReadPageGuard(ReadPageGuard &&) / WritePageGuard(WritePageGuard &&): that[t]
\* is constructed from guard[t], in the place of an invalid guard that was destroyed
MoveConstruct(t) ==
  /\ pc[t] = "idle"
  /\ ~that[t].is_valid_
  /\ that' = [that EXCEPT ![t] = guard[t]]
  /\ guard' = [guard EXCEPT ![t] = [@ EXCEPT !.is_valid_ = FALSE,
                                             !.page_id_ = INVALID_PAGE_ID,
                                             !.frame_ = INVALID_FRAME_ID]]
  /\ ret' = "move"
  /\ UNCHANGED <<num_frames_, background_thread_, next_page_id_, free_frames_, page_table_,
                 frames_, rwlatch_, bpm_latch_, replacer_, request_queue_, promise, disk, pc,
                 op, history>>

\* operator=(&&), guard[t] = std::move(that[t]), after this->Drop(): the fields
\* are taken over and that[t] is invalidated
MoveAssignTake(t) ==
  /\ guard' = [guard EXCEPT ![t] = that[t]]
  /\ that' = [that EXCEPT ![t] = [@ EXCEPT !.is_valid_ = FALSE,
                                           !.page_id_ = INVALID_PAGE_ID,
                                           !.frame_ = INVALID_FRAME_ID]]
  /\ pc' = [pc EXCEPT ![t] = "idle"]
  /\ ret' = "operator="

\* operator=(&&) on guards of the same type: Drop() of guard[t] up to the unlock
\* of its frame latch when it is valid, else the whole assignment
MoveAssign(t) ==
  /\ pc[t] = "idle"
  /\ guard[t].is_write = that[t].is_write \/ ~guard[t].is_valid_ \/ ~that[t].is_valid_
  /\ IF guard[t].is_valid_ /\ guard[t].frame_ # INVALID_FRAME_ID
     THEN /\ frames_' = [frames_ EXCEPT ![guard[t].frame_].pin_count_ =
                                            IF @ > 0 THEN @ - 1 ELSE @]
          /\ rwlatch_' = [rwlatch_ EXCEPT ![guard[t].frame_] =
                            IF guard[t].is_write THEN [@ EXCEPT !.writer = NoThread]
                            ELSE [@ EXCEPT !.readers = @ \ {t}]]
          /\ guard' = [guard EXCEPT ![t].is_valid_ = FALSE]
          /\ pc' = [pc EXCEPT ![t] = "operator=:replacer"]
          /\ ret' = "-"
          /\ that' = that
     ELSE /\ MoveAssignTake(t)
          /\ UNCHANGED <<frames_, rwlatch_>>
  /\ UNCHANGED <<num_frames_, background_thread_, next_page_id_, free_frames_, page_table_,
                 bpm_latch_, replacer_, request_queue_, promise, disk, op, history>>

\* operator=(&&): the rest of Drop() under the BPM mutex, then the take-over
MoveAssignAfterDrop(t) ==
  /\ pc[t] = "operator=:replacer"
  /\ bpm_latch_ = NoThread
  /\ replacer_.current_timestamp_ < MaxTime
  /\ replacer_' = SetEvictable(RecordAccess(replacer_, guard[t].frame_), guard[t].frame_,
                               frames_[guard[t].frame_].pin_count_ = 0)
  /\ MoveAssignTake(t)
  /\ UNCHANGED <<num_frames_, background_thread_, next_page_id_, free_frames_, page_table_,
                 frames_, rwlatch_, bpm_latch_, request_queue_, promise, disk, op, history>>

\* Drop() or the destructor of that[t]: nothing for an invalid guard, else up to
\* the unlock of the frame latch
ThatDrop(t) ==
  /\ pc[t] = "idle"
  /\ IF ~that[t].is_valid_ \/ that[t].frame_ = INVALID_FRAME_ID
     THEN /\ ret' = "Drop"
          /\ UNCHANGED <<frames_, rwlatch_, that, pc>>
     ELSE /\ frames_' = [frames_ EXCEPT ![that[t].frame_].pin_count_ =
                                            IF @ > 0 THEN @ - 1 ELSE @]
          /\ rwlatch_' = [rwlatch_ EXCEPT ![that[t].frame_] =
                            IF that[t].is_write THEN [@ EXCEPT !.writer = NoThread]
                            ELSE [@ EXCEPT !.readers = @ \ {t}]]
          /\ that' = [that EXCEPT ![t].is_valid_ = FALSE]
          /\ pc' = [pc EXCEPT ![t] = "that.Drop:replacer"]
          /\ ret' = "-"
  /\ UNCHANGED <<num_frames_, background_thread_, next_page_id_, free_frames_, page_table_,
                 bpm_latch_, replacer_, request_queue_, promise, disk, op, guard, history>>

\* Drop() of that[t], the block under the BPM mutex and the reset of the fields
ThatDropReplacer(t) ==
  /\ pc[t] = "that.Drop:replacer"
  /\ bpm_latch_ = NoThread
  /\ replacer_.current_timestamp_ < MaxTime
  /\ replacer_' = SetEvictable(RecordAccess(replacer_, that[t].frame_), that[t].frame_,
                               frames_[that[t].frame_].pin_count_ = 0)
  /\ that' = [that EXCEPT ![t] = [@ EXCEPT !.page_id_ = INVALID_PAGE_ID,
                                           !.frame_ = INVALID_FRAME_ID]]
  /\ pc' = [pc EXCEPT ![t] = "idle"]
  /\ ret' = "Drop"
  /\ UNCHANGED <<num_frames_, background_thread_, next_page_id_, free_frames_, page_table_,
                 frames_, rwlatch_, bpm_latch_, request_queue_, promise, disk, op, guard,
                 history>>

\* the thread asks for a page it holds no guard on (locking a latch it already
\* holds is undefined)
Unguarded(t, p) == ~(that[t].is_valid_ /\ that[t].page_id_ = p)

GuardNext ==
  \/ StartWorkerThread
  \/ NewPage(1)
  \/ NewPageAfterFlush(1)
  \/ \E p \in Pages : Unguarded(1, p) /\ CheckedWritePage(1, p)
  \/ CheckedWritePageAfterFlush(1)
  \/ CheckedWritePageAfterRead(1)
  \/ CheckedWritePageLatch(1)
  \/ \E p \in Pages : Unguarded(1, p) /\ CheckedReadPage(1, p)
  \/ CheckedReadPageAfterFlush(1)
  \/ CheckedReadPageAfterRead(1)
  \/ CheckedReadPageLatch(1)
  \/ CheckedReadPageMap(1)
  \/ CheckedReadPageRecord(1)
  \/ CheckedReadPageReturn(1)
  \/ DropUnpin(1)
  \/ DropReplacer(1)
  \/ MoveConstruct(1)
  \/ MoveAssign(1)
  \/ MoveAssignAfterDrop(1)
  \/ ThatDrop(1)
  \/ ThatDropReplacer(1)

GuardSpec == Init /\ [][GuardNext]_vars


\* the number of valid guard objects of the client on frame f
GuardCount(f) ==
  (IF guard[1].is_valid_ /\ guard[1].frame_ = f THEN 1 ELSE 0)
    + (IF that[1].is_valid_ /\ that[1].frame_ = f THEN 1 ELSE 0)

LatchHeld(f) == rwlatch_[f].writer # NoThread \/ rwlatch_[f].readers # {}

\* C17: a valid guard comes only from the buffer pool; moving it (move
\* constructor, move assignment) changes no frame, latch or replacer state and
\* leaves one valid guard per frame; the frame latch is released, and the pin
\* count decremented (by one), only in the step in which the one valid guard on
\* the frame stops being valid, and that step always releases the latch; Drop or
\* the destructor of a moved-from or already dropped guard changes no state.
C17_GuardReleasedOnce ==
  [][/\ \A f \in Frames :
          /\ GuardCount(f) <= 1
          /\ GuardCount(f)' > GuardCount(f) =>
               ret' \in {"CheckedWritePage:guard", "CheckedReadPage:guard"}
          /\ frames_'[f].pin_count_ < frames_[f].pin_count_ =>
               /\ frames_'[f].pin_count_ = frames_[f].pin_count_ - 1
               /\ GuardCount(f)' = GuardCount(f) - 1
          /\ (LatchHeld(f) /\ ~LatchHeld(f)') => GuardCount(f)' = GuardCount(f) - 1
          /\ GuardCount(f)' < GuardCount(f) => (LatchHeld(f) /\ ~LatchHeld(f)')
     /\ (MoveConstruct(1) \/ (MoveAssign(1) /\ ~guard[1].is_valid_)) =>
          /\ UNCHANGED <<frames_, rwlatch_, replacer_, page_table_, free_frames_>>
          /\ \A f \in Frames : GuardCount(f)' = GuardCount(f)
     /\ (ThatDrop(1) /\ ~that[1].is_valid_) =>
          UNCHANGED <<frames_, rwlatch_, replacer_, page_table_, free_frames_, bpm_latch_,
                      guard, that, pc>>
    ]_vars

\* C17 witness: a guard from the buffer pool was moved into that[1] by the move
\* constructor and has just been taken back by move assignment, a guard on
\* another frame having been dropped
C17_Witness ==
  /\ ret = "operator="
  /\ pc[1] = "idle"
  /\ guard[1].is_valid_
  /\ ~that[1].is_valid_
  /\ \E f \in Frames : f # guard[1].frame_ /\ Evictable(f)

\* ======================================================= the B+Tree index
\* The tree is driven on a buffer pool of TreeFrames frames. Every call of the
\* tree into the buffer pool is taken as its caller sees it: the call has
\* returned, and the disk request it waited for has been completed by the
\* worker. The pool is the record of the fields the calls read and write.
TreeFrameIds == 0..(TreeFrames - 1)
TreePages == 0..(MaxTreePages - 1)
Keys == 1..MaxKey

Bpm ==
  [next_page_id_ |-> next_page_id_, free_frames_ |-> free_frames_,
   page_table_ |-> page_table_, frames_ |-> frames_, disk |-> disk]

\* the frames LRUKReplacer::Evict chooses from: a frame is evictable from the
\* Drop that brings its pin count to 0 until the next access pins it. Which of
\* them Evict returns changes only the frame ids, not what the tree reads or
\* what its calls return, so the lowest frame id stands for the replacer's choice.
Victims(bpm) ==
  {f \in TreeFrameIds : /\ f < num_frames_
                        /\ \E p \in DOMAIN bpm.page_table_ : bpm.page_table_[p] = f
                        /\ bpm.frames_[f].pin_count_ = 0}

Lowest(S) == CHOOSE i \in S : \A j \in S : i <= j

\* BufferPoolManager::FlushPageUnsafe of a resident page, the write completed
BpmFlushPageUnsafe(bpm, page_id) ==
  IF ~bpm.frames_[bpm.page_table_[page_id]].is_dirty_ THEN bpm
  ELSE [bpm EXCEPT !.disk[page_id] = bpm.frames_[bpm.page_table_[page_id]].data_,
                   !.frames_[bpm.page_table_[page_id]].is_dirty_ = FALSE]

\* the page LRUKReplacer::Evict's victim holds
VictimPage(bpm) ==
  CHOOSE p \in DOMAIN bpm.page_table_ : bpm.page_table_[p] = Lowest(Victims(bpm))

\* the frame NewPage and a cache miss load a page into: the front of the free
\* list, else the victim of the replacer, flushed and unmapped;
\* INVALID_FRAME_ID when every frame is pinned
BpmTakeFrame(bpm) ==
  IF bpm.free_frames_ # <<>>
  THEN [frame_id |-> Head(bpm.free_frames_),
        bpm |-> [bpm EXCEPT !.free_frames_ = Tail(@)]]
  ELSE IF Victims(bpm) = {}
  THEN [frame_id |-> INVALID_FRAME_ID, bpm |-> bpm]
  ELSE [frame_id |-> Lowest(Victims(bpm)),
        bpm |-> [BpmFlushPageUnsafe(bpm, VictimPage(bpm)) EXCEPT
                   !.page_table_ = Erase(@, VictimPage(bpm))]]

\* the page installed in the frame taken: the page id (INVALID_PAGE_ID when no
\* frame could be taken, the pool then being left as failed) and the pool after
BpmInstall(taken, page_id, frame, failed) ==
  IF taken.frame_id = INVALID_FRAME_ID
  THEN [page_id |-> INVALID_PAGE_ID, bpm |-> failed]
  ELSE [page_id |-> page_id,
        bpm |-> [taken.bpm EXCEPT !.frames_[taken.frame_id] = frame,
                                  !.page_table_ = @ @@ (page_id :> taken.frame_id)]]

\* BufferPoolManager::NewPage: the page id returned and the pool after
BpmNewPage(bpm) ==
  BpmInstall(BpmTakeFrame([bpm EXCEPT !.next_page_id_ = @ + 1]), bpm.next_page_id_,
             [pin_count_ |-> 1, is_dirty_ |-> FALSE, data_ |-> 0],
             [bpm EXCEPT !.next_page_id_ = @ + 1])

\* BufferPoolManager::CheckedWritePage / CheckedReadPage and the constructor of
\* the guard: page_id is INVALID_PAGE_ID for std::nullopt
BpmCheckedPage(bpm, page_id, is_write) ==
  IF page_id = INVALID_PAGE_ID \/ page_id < 0 \/ page_id >= bpm.next_page_id_
  THEN [page_id |-> INVALID_PAGE_ID, bpm |-> bpm]
  ELSE IF page_id \in DOMAIN bpm.page_table_
  THEN [page_id |-> page_id,
        bpm |-> [bpm EXCEPT
                   !.frames_[bpm.page_table_[page_id]].pin_count_ = IF @ = 0 THEN 1 ELSE @,
                   !.frames_[bpm.page_table_[page_id]].is_dirty_ =
                      IF is_write THEN TRUE ELSE @]]
  ELSE BpmInstall(BpmTakeFrame(bpm), page_id,
                  [pin_count_ |-> 1, is_dirty_ |-> is_write, data_ |-> bpm.disk[page_id]],
                  bpm)

\* can BufferPoolManager::WritePage / ReadPage return: they abort the process
\* when the checked call returns std::nullopt
CanBringIn(bpm, page_id) ==
  BpmCheckedPage(bpm, page_id, TRUE).page_id # INVALID_PAGE_ID

\* BufferPoolManager::WritePage, BufferPoolManager::ReadPage
BpmWritePage(bpm, page_id) == BpmCheckedPage(bpm, page_id, TRUE).bpm
BpmReadPage(bpm, page_id) == BpmCheckedPage(bpm, page_id, FALSE).bpm

\* WritePageGuard::Drop / ReadPageGuard::Drop of the valid guard on page_id
BpmDrop(bpm, page_id) ==
  [bpm EXCEPT !.frames_[bpm.page_table_[page_id]].pin_count_ = IF @ > 0 THEN @ - 1 ELSE @]

RECURSIVE BpmDropAll(_, _)
\* std::deque<WritePageGuard>::clear and the destructor of Context
BpmDropAll(bpm, page_ids) ==
  IF page_ids = <<>> THEN bpm
  ELSE BpmDropAll(BpmDrop(bpm, Head(page_ids)), Tail(page_ids))

\* BufferPoolManager::DeletePage; the tree ignores what it returns
BpmDeletePage(bpm, page_id) ==
  IF page_id \notin DOMAIN bpm.page_table_ THEN bpm
  ELSE IF bpm.frames_[bpm.page_table_[page_id]].pin_count_ > 0 THEN bpm
  ELSE [BpmFlushPageUnsafe(bpm, page_id) EXCEPT
          !.page_table_ = Erase(@, page_id),
          !.frames_[bpm.page_table_[page_id]] = Reset(@),
          !.free_frames_ = Append(@, bpm.page_table_[page_id])]

\* PageGuard::As / AsMut: the page the guard on page_id points at, and writing it
Data(bpm, page_id) == bpm.frames_[bpm.page_table_[page_id]].data_
SetData(bpm, page_id, page) ==
  [bpm EXCEPT !.frames_[bpm.page_table_[page_id]].data_ = page]

\* ------------------------------------------------------- B+Tree pages
\* the header page is the first page of the pool, allocated by the owner of the tree
header_page_id_ == 0

\* std::vector / array helpers; the element at C++ index i is at i + 1
Back(s) == s[Len(s)]
PopBack(s) == SubSeq(s, 1, Len(s) - 1)
InsertAt(s, i, x) == SubSeq(s, 1, i) \o <<x>> \o SubSeq(s, i + 1, Len(s))
RemoveAt(s, i) == SubSeq(s, 1, i) \o SubSeq(s, i + 2, Len(s))

\* BPlusTreeHeaderPage
HeaderPage(root_page_id) == [root_page_id_ |-> root_page_id]

\* BPlusTreeLeafPage: key_array_ and rid_array_ up to size_
LeafPage(keys, rids, next_page_id) ==
  [page_type_ |-> "LEAF_PAGE", key_array_ |-> keys, rid_array_ |-> rids,
   next_page_id_ |-> next_page_id]

\* BPlusTreeInternalPage: key_array_ and page_id_array_ up to size_; the key at
\* index 0 is never read (KeyAt(0) throws) and is kept as 0
InternalPage(keys, page_ids) ==
  [page_type_ |-> "INTERNAL_PAGE", key_array_ |-> keys, page_id_array_ |-> page_ids]

IsLeafPage(page) == page.page_type_ = "LEAF_PAGE"
GetSize(page) == Len(page.key_array_)
GetMaxSize(page) == IF IsLeafPage(page) THEN leaf_max_size_ ELSE internal_max_size_
\* BPlusTreePage::GetMinSize
GetMinSize(page) ==
  IF IsLeafPage(page) THEN GetMaxSize(page) \div 2 ELSE (GetMaxSize(page) + 1) \div 2

\* BPlusTreeLeafPage::KeyAt, SetKeyAt and ValueAt throw Exception("Index out of
\* bounds") for an index that InLeaf does not hold of
InLeaf(leaf, index) == index >= 0 /\ index < GetSize(leaf)

\* B_PLUS_TREE_INTERNAL_PAGE_TYPE::KeyAt, BPlusTreeLeafPage::KeyAt
KeyAt(page, index) == page.key_array_[index + 1]
\* B_PLUS_TREE_INTERNAL_PAGE_TYPE::ValueAt
ValueAt(page, index) == page.page_id_array_[index + 1]

\* B_PLUS_TREE_INTERNAL_PAGE_TYPE::ValueIndex
ValueIndex(page, value) ==
  IF \A i \in 0..(GetSize(page) - 1) : ValueAt(page, i) # value THEN -1
  ELSE Lowest({i \in 0..(GetSize(page) - 1) : ValueAt(page, i) = value})

\* ------------------------------------------------------- B+Tree
\* Context: ctx.bpm is the pool as the running call has left it, write_set_
\* the page ids of the guards in Context::write_set_; header_page_ holds the
\* guard on the header page in every call below

\* the root id in the header page, the guard on it held
RootPageId(header_guarded) == Data(header_guarded, header_page_id_).root_page_id_

\* Context ctx with ctx.header_page_ the guard taken and ctx.root_page_id_ read
\* from the header page
NewContext(header_guarded) ==
  [bpm |-> header_guarded, root_page_id_ |-> RootPageId(header_guarded),
   write_set_ |-> <<>>]

\* the destructor of Context at the return of a call
ContextRelease(ctx) == BpmDrop(BpmDropAll(ctx.bpm, ctx.write_set_), header_page_id_)

\* BPlusTree::IsEmpty and BPlusTree::GetRootPageId: the root id read, the pool after
ReadRoot(bpm) ==
  [root_page_id_ |-> RootPageId(BpmReadPage(bpm, header_page_id_)),
   bpm |-> BpmDrop(BpmReadPage(bpm, header_page_id_), header_page_id_)]

\* the first index from 1 on whose key is greater than key, the size when none is
UpperBound(internal, key) ==
  IF \A i \in 1..(GetSize(internal) - 1) : ~(key < KeyAt(internal, i))
  THEN GetSize(internal)
  ELSE Lowest({i \in 1..(GetSize(internal) - 1) : key < KeyAt(internal, i)})

\* BPlusTree::FindLeafPage, the index of the child it descends to
ChildIndex(internal, key) ==
  IF UpperBound(internal, key) = 1 THEN 0 ELSE UpperBound(internal, key) - 1

\* BPlusTree::FindLeafPage, the guard on page_id pushed on write_set_
Descend(ctx, page_id) ==
  [ctx EXCEPT !.bpm = BpmWritePage(@, page_id), !.write_set_ = Append(@, page_id)]

\* the page under the guard at the back of write_set_
BackPage(ctx) == Data(ctx.bpm, Back(ctx.write_set_))

RECURSIVE FindLeafPageLoop(_, _)
\* BPlusTree::FindLeafPage, its while loop from the page at the back of write_set_
FindLeafPageLoop(ctx, key) ==
  IF IsLeafPage(BackPage(ctx)) THEN ctx
  ELSE FindLeafPageLoop(
         Descend(ctx, ValueAt(BackPage(ctx), ChildIndex(BackPage(ctx), key))), key)

\* BPlusTree::FindLeafPage: the leaf is the page at the back of write_set_
FindLeafPage(ctx, key) == FindLeafPageLoop(Descend(ctx, ctx.root_page_id_), key)

\* the position of key in the leaf, -1 when the leaf does not hold it
KeyIndex(leaf, key) ==
  IF \A i \in 0..(GetSize(leaf) - 1) : KeyAt(leaf, i) # key THEN -1
  ELSE Lowest({i \in 0..(GetSize(leaf) - 1) : KeyAt(leaf, i) = key})

\* BPlusTree::GetValue, the scan of the leaf found and the return
GetValueInLeaf(ctx, key) ==
  [found |-> KeyIndex(BackPage(ctx), key) # -1,
   result |-> IF KeyIndex(BackPage(ctx), key) = -1 THEN <<>>
              ELSE <<BackPage(ctx).rid_array_[KeyIndex(BackPage(ctx), key) + 1]>>,
   bpm |-> ContextRelease(ctx)]

\* BPlusTree::GetValue from the header guard on, root_page_id the id that
\* GetRootPageId returned before: found, the vector *result and the pool after
GetValue(bpm, root_page_id, key) ==
  GetValueInLeaf(
    FindLeafPage([NewContext(BpmWritePage(bpm, header_page_id_)) EXCEPT
                    !.root_page_id_ = root_page_id], key), key)

\* BPlusTree::InsertIntoParent, the old root split: the new root page
InsertNewRoot(ctx, new_root, left_page_id, middle_key, right_page_id) ==
  IF new_root.page_id = INVALID_PAGE_ID
  THEN [ctx EXCEPT !.bpm = BpmDrop(BpmDrop(new_root.bpm, left_page_id), right_page_id)]
  ELSE [ctx EXCEPT
          !.bpm =
             SetData(
               BpmDrop(
                 BpmDrop(
                   BpmDrop(
                     SetData(BpmWritePage(new_root.bpm, new_root.page_id), new_root.page_id,
                             InternalPage(<<0, middle_key>>,
                                          <<left_page_id, right_page_id>>)),
                     left_page_id),
                   right_page_id),
                 new_root.page_id),
               header_page_id_, HeaderPage(new_root.page_id)),
          !.root_page_id_ = new_root.page_id]

\* BPlusTree::InsertIntoParent, the parent with (middle_key, right_page_id)
\* inserted at the index its loop finds
InsertedParent(parent, middle_key, right_page_id) ==
  InternalPage(InsertAt(parent.key_array_, UpperBound(parent, middle_key), middle_key),
               InsertAt(parent.page_id_array_, UpperBound(parent, middle_key),
                        right_page_id))

RECURSIVE InsertIntoParent(_, _, _, _)
\* BPlusTree::InsertIntoParent, the parent full: all is the parent's entries
\* with the new one, split over the parent and the new internal page, and the
\* middle key pushed up
InsertSplitParent(ctx, new_internal, all, left_page_id, right_page_id) ==
  IF new_internal.page_id = INVALID_PAGE_ID
  THEN [ctx EXCEPT !.bpm = BpmDrop(BpmDrop(new_internal.bpm, left_page_id),
                                   right_page_id)]
  ELSE InsertIntoParent(
         [ctx EXCEPT
            !.bpm =
               BpmDrop(
                 BpmDrop(
                   BpmDrop(
                     BpmDrop(
                       SetData(
                         SetData(BpmWritePage(new_internal.bpm, new_internal.page_id),
                                 Back(ctx.write_set_),
                                 InternalPage(SubSeq(all.key_array_, 1, GetMinSize(all)),
                                              SubSeq(all.page_id_array_, 1,
                                                     GetMinSize(all)))),
                         new_internal.page_id,
                         InternalPage(<<0>> \o SubSeq(all.key_array_, GetMinSize(all) + 2,
                                                      GetSize(all)),
                                      SubSeq(all.page_id_array_, GetMinSize(all) + 1,
                                             GetSize(all)))),
                       left_page_id),
                     right_page_id),
                   new_internal.page_id),
                 Back(ctx.write_set_)),
            !.write_set_ = PopBack(@)],
         Back(ctx.write_set_), KeyAt(all, GetMinSize(all)), new_internal.page_id)

\* BPlusTree::InsertIntoParent: the context when it returns
InsertIntoParent(ctx, left_page_id, middle_key, right_page_id) ==
  IF ctx.root_page_id_ = left_page_id
  THEN InsertNewRoot(ctx,
                     BpmNewPage(BpmWritePage(BpmWritePage(ctx.bpm, left_page_id),
                                             right_page_id)),
                     left_page_id, middle_key, right_page_id)
  ELSE IF GetSize(BackPage(ctx)) < GetMaxSize(BackPage(ctx))
  THEN [ctx EXCEPT
          !.bpm = BpmDrop(
                    BpmDrop(
                      SetData(BpmWritePage(BpmWritePage(@, left_page_id), right_page_id),
                              Back(ctx.write_set_),
                              InsertedParent(BackPage(ctx), middle_key, right_page_id)),
                      left_page_id),
                    right_page_id)]
  ELSE InsertSplitParent(ctx,
                         BpmNewPage(BpmWritePage(BpmWritePage(ctx.bpm, left_page_id),
                                                 right_page_id)),
                         InsertedParent(BackPage(ctx), middle_key, right_page_id),
                         left_page_id, right_page_id)

\* BPlusTree::Insert, the tree empty: the first leaf becomes the root. The leaf
\* has size 0 after Init, and SetKeyAt(0, key) comes before SetSize(1): when
\* SetKeyAt throws, the header page keeps the id of the leaf without entries
InsertIntoEmpty(new_root, key, value) ==
  IF new_root.page_id = INVALID_PAGE_ID
  THEN [ret |-> FALSE, thrown |-> FALSE, bpm |-> BpmDrop(new_root.bpm, header_page_id_)]
  ELSE [ret |-> InLeaf(LeafPage(<<>>, <<>>, INVALID_PAGE_ID), 0),
        thrown |-> ~InLeaf(LeafPage(<<>>, <<>>, INVALID_PAGE_ID), 0),
        bpm |-> BpmDrop(
                  BpmDrop(
                    SetData(
                      BpmWritePage(SetData(new_root.bpm, header_page_id_,
                                           HeaderPage(new_root.page_id)),
                                   new_root.page_id),
                      new_root.page_id,
                      IF InLeaf(LeafPage(<<>>, <<>>, INVALID_PAGE_ID), 0)
                      THEN LeafPage(<<key>>, <<value>>, INVALID_PAGE_ID)
                      ELSE LeafPage(<<>>, <<>>, INVALID_PAGE_ID)),
                    new_root.page_id),
                  header_page_id_)]

\* BPlusTree::Insert, the leaf's entries with (key, value) at its sorted position
InsertedLeaf(leaf, key, value) ==
  LET insert_pos == Cardinality({i \in 0..(GetSize(leaf) - 1) : KeyAt(leaf, i) < key})
  IN  LeafPage(InsertAt(leaf.key_array_, insert_pos, key),
               InsertAt(leaf.rid_array_, insert_pos, value), leaf.next_page_id_)

\* BPlusTree::Insert, the leaf full: all is the leaf's entries with the new one,
\* split over the leaf and the new leaf; what InsertIntoParent returns is
\* ignored. The new leaf has size 0 when SetKeyAt(0, ...) writes to it: when
\* that throws, the first GetMinSize() entries of the old leaf are rewritten
\* already and the new page is left in the pool
InsertSplit(ctx, new_leaf, all) ==
  IF new_leaf.page_id = INVALID_PAGE_ID
  THEN [ret |-> FALSE, thrown |-> FALSE,
        bpm |-> ContextRelease([ctx EXCEPT !.bpm = new_leaf.bpm])]
  ELSE IF ~InLeaf(LeafPage(<<>>, <<>>, INVALID_PAGE_ID), 0)
  THEN [ret |-> FALSE, thrown |-> TRUE,
        bpm |->
          ContextRelease(
            [ctx EXCEPT
               !.bpm =
                  BpmDrop(
                    SetData(
                      SetData(BpmWritePage(new_leaf.bpm, new_leaf.page_id),
                              new_leaf.page_id,
                              LeafPage(<<>>, <<>>, INVALID_PAGE_ID)),
                      Back(ctx.write_set_),
                      LeafPage(SubSeq(all.key_array_, 1, GetMinSize(all))
                                 \o SubSeq(BackPage(ctx).key_array_, GetMinSize(all) + 1,
                                           GetSize(BackPage(ctx))),
                               SubSeq(all.rid_array_, 1, GetMinSize(all))
                                 \o SubSeq(BackPage(ctx).rid_array_, GetMinSize(all) + 1,
                                           GetSize(BackPage(ctx))),
                               all.next_page_id_)),
                    new_leaf.page_id)])]
  ELSE [ret |-> TRUE, thrown |-> FALSE,
        bpm |->
          ContextRelease(
            InsertIntoParent(
              [ctx EXCEPT
                 !.bpm =
                    BpmDrop(
                      BpmDrop(
                        SetData(
                          SetData(BpmWritePage(new_leaf.bpm, new_leaf.page_id),
                                  new_leaf.page_id,
                                  LeafPage(SubSeq(all.key_array_, GetMinSize(all) + 1,
                                                  GetSize(all)),
                                           SubSeq(all.rid_array_, GetMinSize(all) + 1,
                                                  GetSize(all)),
                                           all.next_page_id_)),
                          Back(ctx.write_set_),
                          LeafPage(SubSeq(all.key_array_, 1, GetMinSize(all)),
                                   SubSeq(all.rid_array_, 1, GetMinSize(all)),
                                   new_leaf.page_id)),
                        new_leaf.page_id),
                      Back(ctx.write_set_)),
                 !.write_set_ = PopBack(@)],
              Back(ctx.write_set_), all.key_array_[GetMinSize(all) + 1],
              new_leaf.page_id))]

\* BPlusTree::Insert, the leaf found. The leaf not full, the first write to its
\* key array is SetKeyAt at index GetSize(): of the entry shifted up, or of the
\* new key behind the last entry
InsertIntoLeaf(ctx, key, value) ==
  IF KeyIndex(BackPage(ctx), key) # -1
  THEN [ret |-> FALSE, thrown |-> FALSE, bpm |-> ContextRelease(ctx)]
  ELSE IF GetSize(BackPage(ctx)) < GetMaxSize(BackPage(ctx))
  THEN IF ~InLeaf(BackPage(ctx), GetSize(BackPage(ctx)))
       THEN [ret |-> FALSE, thrown |-> TRUE, bpm |-> ContextRelease(ctx)]
       ELSE [ret |-> TRUE, thrown |-> FALSE,
             bpm |-> ContextRelease(
                       [ctx EXCEPT !.bpm = SetData(@, Back(ctx.write_set_),
                                                   InsertedLeaf(BackPage(ctx), key, value))])]
  ELSE InsertSplit(ctx, BpmNewPage(ctx.bpm), InsertedLeaf(BackPage(ctx), key, value))

\* BPlusTree::Insert: what it returns, whether it throws, and the pool after
Insert(bpm, key, value) ==
  IF RootPageId(BpmWritePage(bpm, header_page_id_)) = INVALID_PAGE_ID
  THEN InsertIntoEmpty(BpmNewPage(BpmWritePage(bpm, header_page_id_)), key, value)
  ELSE InsertIntoLeaf(FindLeafPage(NewContext(BpmWritePage(bpm, header_page_id_)), key),
                      key, value)

\* BPlusTree::GetBrother: the sibling's page id and flag (1 left, 2 right)
GetBrother(ctx, cur_node_id) ==
  IF ctx.write_set_ = <<>> THEN [page_id |-> INVALID_PAGE_ID, flag |-> 0]
  ELSE IF ValueIndex(BackPage(ctx), cur_node_id) = GetSize(BackPage(ctx)) - 1
  THEN [page_id |-> ValueAt(BackPage(ctx), ValueIndex(BackPage(ctx), cur_node_id) - 1),
        flag |-> 1]
  ELSE [page_id |-> ValueAt(BackPage(ctx), ValueIndex(BackPage(ctx), cur_node_id) + 1),
        flag |-> 2]

\* the loop that closes the gap at parent_index in the parent, and ChangeSizeBy(-1)
EraseEntry(parent, parent_index) ==
  InternalPage(RemoveAt(parent.key_array_, parent_index),
               RemoveAt(parent.page_id_array_, parent_index))

\* SetKeyAt(index, key) on an internal page
WithKeyAt(page, index, key) == [page EXCEPT !.key_array_[index + 1] = key]

\* BPlusTree::HandleParentUnderflow, the page merged with its brother: the pool
\* with the guards on the page, the brother and the parent dropped and the
\* emptied page deleted
UnderflowMerged(ctx, page_id, brother_) ==
  LET page == Data(ctx.bpm, page_id)
      brother == Data(ctx.bpm, brother_.page_id)
      parent == BackPage(ctx)
  IN  IF brother_.flag = 1
      THEN BpmDrop(
             BpmDrop(
               BpmDeletePage(
                 BpmDrop(
                   SetData(
                     SetData(ctx.bpm, Back(ctx.write_set_),
                             EraseEntry(parent, ValueIndex(parent, page_id))),
                     brother_.page_id,
                     InternalPage(brother.key_array_
                                    \o <<KeyAt(parent, ValueIndex(parent, page_id))>>
                                    \o Tail(page.key_array_),
                                  brother.page_id_array_ \o page.page_id_array_)),
                   page_id),
                 page_id),
               brother_.page_id),
             Back(ctx.write_set_))
      ELSE BpmDeletePage(
             BpmDrop(
               BpmDrop(
                 BpmDrop(
                   SetData(
                     SetData(ctx.bpm, Back(ctx.write_set_),
                             EraseEntry(parent, ValueIndex(parent, brother_.page_id))),
                     page_id,
                     InternalPage(page.key_array_
                                    \o <<KeyAt(parent, ValueIndex(parent, brother_.page_id))>>
                                    \o Tail(brother.key_array_),
                                  page.page_id_array_ \o brother.page_id_array_)),
                   brother_.page_id),
                 Back(ctx.write_set_)),
               page_id),
             brother_.page_id)

\* BPlusTree::HandleParentUnderflow, an entry borrowed from the brother: the
\* pool with the guards on the page and the brother dropped
UnderflowBorrowed(ctx, page_id, brother_) ==
  LET page == Data(ctx.bpm, page_id)
      brother == Data(ctx.bpm, brother_.page_id)
      parent == BackPage(ctx)
  IN  BpmDrop(
        BpmDrop(
          IF brother_.flag = 1
          THEN SetData(
                 SetData(
                   SetData(ctx.bpm, brother_.page_id,
                           InternalPage(PopBack(brother.key_array_),
                                        PopBack(brother.page_id_array_))),
                   page_id,
                   InternalPage(<<0, KeyAt(parent, ValueIndex(parent, page_id))>>
                                  \o Tail(page.key_array_),
                                <<ValueAt(brother, GetSize(brother) - 1)>>
                                  \o page.page_id_array_)),
                 Back(ctx.write_set_),
                 WithKeyAt(parent, ValueIndex(parent, page_id),
                           KeyAt(brother, GetSize(brother) - 1)))
          ELSE SetData(
                 SetData(
                   SetData(ctx.bpm, Back(ctx.write_set_),
                           WithKeyAt(parent, ValueIndex(parent, brother_.page_id),
                                     KeyAt(brother, 1))),
                   brother_.page_id,
                   InternalPage(<<0>> \o Tail(Tail(brother.key_array_)),
                                Tail(brother.page_id_array_))),
                 page_id,
                 InternalPage(Append(page.key_array_,
                                     KeyAt(parent, ValueIndex(parent, brother_.page_id))),
                              Append(page.page_id_array_, ValueAt(brother, 0)))),
          page_id),
        brother_.page_id)

RECURSIVE HandleParentUnderflow(_, _)
\* BPlusTree::HandleParentUnderflow, the guards on the page and its brother held
UnderflowRebalance(ctx, page_id, brother_) ==
  IF GetSize(Data(ctx.bpm, page_id)) + GetSize(Data(ctx.bpm, brother_.page_id))
       <= GetMaxSize(Data(ctx.bpm, page_id))
  THEN HandleParentUnderflow([ctx EXCEPT !.bpm = UnderflowMerged(ctx, page_id, brother_),
                                         !.write_set_ = PopBack(@)],
                             Back(ctx.write_set_))
  ELSE [ctx EXCEPT !.bpm = UnderflowBorrowed(ctx, page_id, brother_)]

\* BPlusTree::HandleParentUnderflow, the guard on the page held
UnderflowGuarded(ctx, page_id) ==
  IF ctx.root_page_id_ = page_id /\ GetSize(Data(ctx.bpm, page_id)) <= 1
  THEN [ctx EXCEPT
          !.bpm = BpmDeletePage(
                    BpmDrop(SetData(@, header_page_id_,
                                    HeaderPage(ValueAt(Data(ctx.bpm, page_id), 0))),
                            page_id),
                    page_id),
          !.root_page_id_ = ValueAt(Data(ctx.bpm, page_id), 0)]
  ELSE IF \/ ctx.root_page_id_ = page_id
          \/ GetSize(Data(ctx.bpm, page_id)) >= GetMinSize(Data(ctx.bpm, page_id))
          \/ GetBrother(ctx, page_id).page_id = INVALID_PAGE_ID
  THEN [ctx EXCEPT !.bpm = BpmDrop(@, page_id)]
  ELSE UnderflowRebalance(
         [ctx EXCEPT !.bpm = BpmWritePage(@, GetBrother(ctx, page_id).page_id)],
         page_id, GetBrother(ctx, page_id))

\* BPlusTree::HandleParentUnderflow: the context when it returns
HandleParentUnderflow(ctx, page_id) ==
  UnderflowGuarded([ctx EXCEPT !.bpm = BpmWritePage(@, page_id)], page_id)

\* BPlusTree::Remove, the leaf merged with its brother: the pool with the
\* guards on the leaf and the brother dropped and the emptied page deleted
RemoveMerged(ctx, leaf_id, brother_) ==
  LET leaf_page == Data(ctx.bpm, leaf_id)
      brother_page == Data(ctx.bpm, brother_.page_id)
      parent == BackPage(ctx)
  IN  IF brother_.flag = 1
      THEN BpmDeletePage(
             BpmDrop(
               BpmDrop(
                 SetData(
                   SetData(ctx.bpm, brother_.page_id,
                           LeafPage(brother_page.key_array_ \o leaf_page.key_array_,
                                    brother_page.rid_array_ \o leaf_page.rid_array_,
                                    leaf_page.next_page_id_)),
                   Back(ctx.write_set_), EraseEntry(parent, ValueIndex(parent, leaf_id))),
                 leaf_id),
               brother_.page_id),
             leaf_id)
      ELSE BpmDeletePage(
             BpmDrop(
               BpmDrop(
                 SetData(
                   SetData(ctx.bpm, leaf_id,
                           LeafPage(leaf_page.key_array_ \o brother_page.key_array_,
                                    leaf_page.rid_array_ \o brother_page.rid_array_,
                                    brother_page.next_page_id_)),
                   Back(ctx.write_set_),
                   EraseEntry(parent, ValueIndex(parent, brother_.page_id))),
                 leaf_id),
               brother_.page_id),
             brother_.page_id)

\* BPlusTree::Remove, an entry borrowed from the brother: the pool with the
\* guards on the leaf and the brother dropped
RemoveBorrowed(ctx, leaf_id, brother_) ==
  LET leaf_page == Data(ctx.bpm, leaf_id)
      brother_page == Data(ctx.bpm, brother_.page_id)
      parent == BackPage(ctx)
  IN  BpmDrop(
        BpmDrop(
          IF brother_.flag = 1
          THEN SetData(
                 SetData(
                   SetData(ctx.bpm, leaf_id,
                           LeafPage(<<Back(brother_page.key_array_)>> \o leaf_page.key_array_,
                                    <<Back(brother_page.rid_array_)>> \o leaf_page.rid_array_,
                                    leaf_page.next_page_id_)),
                   brother_.page_id,
                   LeafPage(PopBack(brother_page.key_array_),
                            PopBack(brother_page.rid_array_),
                            brother_page.next_page_id_)),
                 Back(ctx.write_set_),
                 WithKeyAt(parent, ValueIndex(parent, leaf_id),
                           Back(brother_page.key_array_)))
          ELSE SetData(
                 SetData(
                   SetData(ctx.bpm, leaf_id,
                           LeafPage(Append(leaf_page.key_array_, Head(brother_page.key_array_)),
                                    Append(leaf_page.rid_array_, Head(brother_page.rid_array_)),
                                    leaf_page.next_page_id_)),
                   brother_.page_id,
                   LeafPage(Tail(brother_page.key_array_), Tail(brother_page.rid_array_),
                            brother_page.next_page_id_)),
                 Back(ctx.write_set_),
                 WithKeyAt(parent, ValueIndex(parent, brother_.page_id),
                           Head(Tail(brother_page.key_array_)))),
          brother_.page_id),
        leaf_id)

\* BPlusTree::Remove, the guards on the leaf and its brother held
RemoveRebalance(ctx, leaf_id, brother_) ==
  IF GetSize(Data(ctx.bpm, leaf_id)) + GetSize(Data(ctx.bpm, brother_.page_id))
       <= GetMaxSize(Data(ctx.bpm, leaf_id))
  THEN ContextRelease(
         HandleParentUnderflow(
           [ctx EXCEPT !.bpm = BpmDrop(RemoveMerged(ctx, leaf_id, brother_),
                                       Back(ctx.write_set_)),
                       !.write_set_ = PopBack(@)],
           Back(ctx.write_set_)))
  ELSE ContextRelease([ctx EXCEPT !.bpm = RemoveBorrowed(ctx, leaf_id, brother_)])

\* BPlusTree::Remove, the entry erased from the leaf: leaf_guard, moved out of
\* write_set_, is held until the return
RemoveErased(ctx, leaf_id) ==
  IF ctx.root_page_id_ = leaf_id /\ GetSize(Data(ctx.bpm, leaf_id)) = 0
  THEN BpmDrop(
         BpmDrop(
           SetData(BpmDeletePage(BpmDropAll(ctx.bpm, ctx.write_set_), ctx.root_page_id_),
                   header_page_id_, HeaderPage(INVALID_PAGE_ID)),
           leaf_id),
         header_page_id_)
  ELSE IF \/ ctx.root_page_id_ = leaf_id
          \/ GetSize(Data(ctx.bpm, leaf_id)) >= GetMinSize(Data(ctx.bpm, leaf_id))
          \/ GetBrother(ctx, leaf_id).page_id = INVALID_PAGE_ID
  THEN ContextRelease([ctx EXCEPT !.bpm = BpmDrop(@, leaf_id)])
  ELSE RemoveRebalance(
         [ctx EXCEPT !.bpm = BpmWritePage(@, GetBrother(ctx, leaf_id).page_id)],
         leaf_id, GetBrother(ctx, leaf_id))

\* BPlusTree::Remove, the leaf found
RemoveInLeaf(found, key) ==
  IF KeyIndex(BackPage(found), key) = -1 THEN ContextRelease(found)
  ELSE RemoveErased(
         [found EXCEPT
            !.bpm = SetData(@, Back(found.write_set_),
                            LeafPage(RemoveAt(BackPage(found).key_array_,
                                              KeyIndex(BackPage(found), key)),
                                     RemoveAt(BackPage(found).rid_array_,
                                              KeyIndex(BackPage(found), key)),
                                     BackPage(found).next_page_id_)),
            !.write_set_ = PopBack(@)],
         Back(found.write_set_))

\* BPlusTree::Remove from the header guard on (IsEmpty has returned false):
\* the pool after
BPlusTreeRemove(bpm, key) ==
  RemoveInLeaf(FindLeafPage(NewContext(BpmWritePage(bpm, header_page_id_)), key), key)

\* ------------------------------------------------- the iterator of the tree
\* IndexIterator: page_id_ and index_
Iterator(page_id, index) == [page_id_ |-> page_id, index_ |-> index]

\* IndexIterator::End, the default-constructed iterator
End == Iterator(INVALID_PAGE_ID, 0)

\* IndexIterator::IsEnd
IsEnd(it) == it.page_id_ = INVALID_PAGE_ID

RECURSIVE LeftmostLoop(_)
\* BPlusTree::Begin(), its while loop: always the child at index 0
LeftmostLoop(ctx) ==
  IF IsLeafPage(BackPage(ctx)) THEN ctx
  ELSE LeftmostLoop(Descend(ctx, ValueAt(BackPage(ctx), 0)))

\* BPlusTree::Begin() on a tree that IsEmpty() found not empty: the iterator on
\* the first slot of the leftmost leaf, whatever the size of the leaf
BeginAt(ctx) ==
  [it |-> Iterator(Back(ctx.write_set_), 0), thrown |-> FALSE, bpm |-> ContextRelease(ctx)]

Begin(bpm) ==
  BeginAt(LeftmostLoop(Descend(NewContext(BpmWritePage(bpm, header_page_id_)),
                               RootPageId(BpmWritePage(bpm, header_page_id_)))))

\* BPlusTree::Begin(key), the loop that looks for key in the leaf found: index
\* starts at -1 and KeyAt(index) is the first thing evaluated for it
BeginKeyAt(ctx, key) ==
  IF ~InLeaf(BackPage(ctx), -1)
  THEN [it |-> End, thrown |-> TRUE, bpm |-> ContextRelease(ctx)]
  ELSE [it |-> Iterator(Back(ctx.write_set_),
                        IF KeyIndex(BackPage(ctx), key) # -1
                        THEN KeyIndex(BackPage(ctx), key) ELSE GetSize(BackPage(ctx))),
        thrown |-> FALSE, bpm |-> ContextRelease(ctx)]

\* BPlusTree::Begin(key) on a tree with a root
BeginKey(bpm, key) ==
  BeginKeyAt(FindLeafPage(NewContext(BpmWritePage(bpm, header_page_id_)), key), key)

\* IndexIterator::operator++, the leaf under its read guard
Advanced(it, leaf) ==
  IF it.index_ + 1 >= GetSize(leaf)
  THEN IF leaf.next_page_id_ = INVALID_PAGE_ID THEN End
       ELSE Iterator(leaf.next_page_id_, 0)
  ELSE Iterator(it.page_id_, it.index_ + 1)

\* IndexIterator::operator++: the iterator and the pool after
Increment(bpm, it) ==
  IF IsEnd(it) THEN [it |-> it, bpm |-> bpm]
  ELSE [it |-> Advanced(it, Data(BpmReadPage(bpm, it.page_id_), it.page_id_)),
        bpm |-> BpmDrop(BpmReadPage(bpm, it.page_id_), it.page_id_)]

\* the key IndexIterator::operator* finds at the iterator, 0 when the slot is
\* not one of the leaf's entries (its assert fails, KeyAt throws)
KeyUnder(bpm, it) ==
  IF InLeaf(Data(BpmReadPage(bpm, it.page_id_), it.page_id_), it.index_)
  THEN KeyAt(Data(BpmReadPage(bpm, it.page_id_), it.page_id_), it.index_)
  ELSE 0

\* ------------------------------------------------- the calls of the tree
\* A call runs under the write guard on the header page from the line that
\* takes it to its return, so that part of a call is one step; IsEmpty and
\* GetRootPageId, which GetValue and Remove call before they take the guard,
\* are steps of their own. A thread that finds the header page latched takes
\* its step when the holder has returned.

\* the vector GetValue fills for a key that is not stored
NoRid == <<>>
NoDescent == [latched |-> {}, leaf |-> INVALID_PAGE_ID, safe |-> FALSE]

\* a call of thread t that has returned ret (GetValue: with the vector result)
Returned(call, t, key, r, result) ==
  [call |-> call, thread |-> t, key |-> key, ret |-> r, result |-> result,
   thrown |-> FALSE, it |-> End, descent |-> NoDescent]

NoCall == Returned("-", NoThread, 0, FALSE, <<>>)
NoKey == [key |-> 0, root_page_id_ |-> INVALID_PAGE_ID, it |-> End]

\* the guards a call holds when FindLeafPage has returned to it: the one in
\* ctx.header_page_ and those in ctx.write_set_; leaf is the page of the last
\* one, and safe whether the leaf is safe for the operation (Insert: size <
\* max size, Remove: size > min size)
Descent(ctx, operation) ==
  [latched |-> {header_page_id_} \cup {ctx.write_set_[i] : i \in 1..Len(ctx.write_set_)},
   leaf |-> Back(ctx.write_set_),
   safe |-> IF operation = "INSERT" THEN GetSize(BackPage(ctx)) < GetMaxSize(BackPage(ctx))
            ELSE GetSize(BackPage(ctx)) > GetMinSize(BackPage(ctx))]

\* the descent of the Insert or Remove of key on the pool bpm
DescentOf(bpm, key, operation) ==
  IF RootPageId(BpmWritePage(bpm, header_page_id_)) = INVALID_PAGE_ID THEN NoDescent
  ELSE Descent(FindLeafPage(NewContext(BpmWritePage(bpm, header_page_id_)), key),
               operation)

\* std::abort() in BufferPoolManager::WritePage ends the process
Aborted == \E t \in Threads : pc[t] = "abort"

Install(bpm) ==
  /\ next_page_id_' = bpm.next_page_id_
  /\ free_frames_' = bpm.free_frames_
  /\ page_table_' = bpm.page_table_
  /\ frames_' = bpm.frames_
  /\ disk' = bpm.disk

TreeUnchanged ==
  UNCHANGED <<num_frames_, rwlatch_, bpm_latch_, replacer_, request_queue_,
              background_thread_, promise, guard, that>>

\* history, in the specifications of the tree: pairs is the map the calls made
\* so far define (insert adds a pair when the key is absent, remove takes the
\* key away), expect what that map returns for the last Insert, and during[t]
\* whether the key of the GetValue thread t is running has been "stored" or
\* "absent" in pairs since the call, or has "changed"
Noted(t, key, rid) ==
  history' = [pairs |-> [history.pairs EXCEPT ![key] = rid],
              expect |-> history.pairs[key] = NoRid,
              during |-> [u \in Threads |->
                            IF u # t /\ pc[u] # "idle" /\ op[u].key = key
                                     /\ history.pairs[key] # rid
                            THEN "changed" ELSE history.during[u]],
              visited |-> history.visited,
              fresh |-> FALSE]

\* BPlusTree::BPlusTree on a new buffer pool of num_frames frames in which
\* NewPage has created the header page: the pool when the constructor returns
Constructed(num_frames) ==
  BpmDrop(
    SetData(
      BpmWritePage(
        BpmNewPage([next_page_id_ |-> 0,
                    free_frames_ |-> [i \in 1..num_frames |-> i - 1],
                    page_table_ |-> <<>>,
                    frames_ |-> [f \in TreeFrameIds |-> Reset(f)],
                    disk |-> [p \in TreePages |-> 0]]).bpm,
        header_page_id_),
      header_page_id_, HeaderPage(INVALID_PAGE_ID)),
    header_page_id_)

\* the tree constructed on a buffer pool of num_frames frames
TreeOn(num_frames) ==
  /\ num_frames_ = num_frames
  /\ \E constructed \in {Constructed(num_frames)} :
         /\ next_page_id_ = constructed.next_page_id_
         /\ free_frames_ = constructed.free_frames_
         /\ page_table_ = constructed.page_table_
         /\ frames_ = constructed.frames_
         /\ disk = constructed.disk
  /\ rwlatch_ = [f \in TreeFrameIds |-> [writer |-> NoThread, readers |-> {}]]
  /\ bpm_latch_ = NoThread
  /\ replacer_ = [node_store_ |-> <<>>, current_timestamp_ |-> 0, curr_size_ |-> 0]
  /\ request_queue_ = <<>>
  /\ background_thread_ = "running"
  /\ promise = [t \in Threads |-> "none"]
  /\ pc = [t \in Threads |-> "idle"]
  /\ op = [t \in Threads |-> NoKey]
  /\ guard = [t \in Threads |-> NoGuard]
  /\ that = [t \in Threads |-> NoGuard]
  /\ ret = NoCall
  /\ history = [pairs |-> [k \in Keys |-> NoRid], expect |-> FALSE,
                during |-> [t \in Threads |-> "-"], visited |-> <<>>, fresh |-> FALSE]

\* BPlusTree::Insert
TreeInsert(t, key, value) ==
  /\ pc[t] = "idle"
  /\ ~Aborted
  /\ \E r \in {Insert(Bpm, key, value)} :
         /\ r.bpm.next_page_id_ <= MaxTreePages
         /\ Install(r.bpm)
         /\ ret' = [Returned("Insert", t, key, r.ret, <<>>) EXCEPT
                      !.thrown = r.thrown, !.descent = DescentOf(Bpm, key, "INSERT")]
  /\ Noted(t, key, IF history.pairs[key] = NoRid THEN <<value>> ELSE history.pairs[key])
  /\ UNCHANGED <<pc, op>>
  /\ TreeUnchanged

\* BPlusTree::GetValue up to the return of IsEmpty
TreeGetValue(t, key) ==
  /\ pc[t] = "idle"
  /\ ~Aborted
  /\ \E r \in {ReadRoot(Bpm)} :
         /\ Install(r.bpm)
         /\ IF r.root_page_id_ = INVALID_PAGE_ID
            THEN /\ pc' = pc
                 /\ ret' = Returned("GetValue", t, key, FALSE, <<>>)
            ELSE /\ pc' = [pc EXCEPT ![t] = "GetValue:GetRootPageId"]
                 /\ ret' = NoCall
  /\ op' = [op EXCEPT ![t] = [@ EXCEPT !.key = key, !.root_page_id_ = INVALID_PAGE_ID]]
  /\ history' = [history EXCEPT !.during[t] =
                   IF history.pairs[key] = NoRid THEN "absent" ELSE "stored"]
  /\ TreeUnchanged

\* BPlusTree::GetValue, ctx.root_page_id_ = GetRootPageId()
TreeGetRootPageId(t) ==
  /\ pc[t] = "GetValue:GetRootPageId"
  /\ ~Aborted
  /\ \E r \in {ReadRoot(Bpm)} :
         /\ Install(r.bpm)
         /\ op' = [op EXCEPT ![t].root_page_id_ = r.root_page_id_]
  /\ pc' = [pc EXCEPT ![t] = "GetValue:WritePage"]
  /\ ret' = NoCall
  /\ UNCHANGED history
  /\ TreeUnchanged

\* BPlusTree::GetValue from the header guard to the return
TreeGetValueFind(t) ==
  /\ pc[t] = "GetValue:WritePage"
  /\ ~Aborted
  /\ IF ~CanBringIn(BpmWritePage(Bpm, header_page_id_), op[t].root_page_id_)
     THEN /\ pc' = [pc EXCEPT ![t] = "abort"]
          /\ ret' = NoCall
          /\ UNCHANGED <<next_page_id_, free_frames_, page_table_, frames_, disk>>
     ELSE \E r \in {GetValue(Bpm, op[t].root_page_id_, op[t].key)} :
              /\ Install(r.bpm)
              /\ pc' = [pc EXCEPT ![t] = "idle"]
              /\ ret' = Returned("GetValue", t, op[t].key, r.found, r.result)
  /\ UNCHANGED <<op, history>>
  /\ TreeUnchanged

\* BPlusTree::Remove up to the return of IsEmpty
TreeRemove(t, key) ==
  /\ pc[t] = "idle"
  /\ ~Aborted
  /\ \E r \in {ReadRoot(Bpm)} :
         /\ Install(r.bpm)
         /\ IF r.root_page_id_ = INVALID_PAGE_ID
            THEN /\ pc' = pc
                 /\ ret' = Returned("Remove", t, key, FALSE, <<>>)
                 /\ Noted(t, key, NoRid)
            ELSE /\ pc' = [pc EXCEPT ![t] = "Remove:WritePage"]
                 /\ ret' = NoCall
                 /\ UNCHANGED history
  /\ op' = [op EXCEPT ![t] = [@ EXCEPT !.key = key, !.root_page_id_ = INVALID_PAGE_ID]]
  /\ TreeUnchanged

\* BPlusTree::Remove from the header guard to the return
TreeRemoveFind(t) ==
  /\ pc[t] = "Remove:WritePage"
  /\ ~Aborted
  /\ IF ~CanBringIn(BpmWritePage(Bpm, header_page_id_),
                     RootPageId(BpmWritePage(Bpm, header_page_id_)))
         THEN /\ pc' = [pc EXCEPT ![t] = "abort"]
              /\ ret' = NoCall
              /\ UNCHANGED <<next_page_id_, free_frames_, page_table_, frames_, disk, history>>
         ELSE /\ Install(BPlusTreeRemove(Bpm, op[t].key))
              /\ pc' = [pc EXCEPT ![t] = "idle"]
              /\ ret' = [Returned("Remove", t, op[t].key, FALSE, <<>>) EXCEPT
                           !.descent = DescentOf(Bpm, op[t].key, "DELETE")]
              /\ Noted(t, op[t].key, NoRid)
  /\ UNCHANGED op
  /\ TreeUnchanged

\* BPlusTree::Begin(), one client: the iterator is kept in op[t].it
TreeBegin(t) ==
  /\ pc[t] = "idle"
  /\ ~Aborted
  /\ IF ReadRoot(Bpm).root_page_id_ = INVALID_PAGE_ID
     THEN /\ Install(ReadRoot(Bpm).bpm)
          /\ op' = [op EXCEPT ![t].it = End]
          /\ ret' = Returned("Begin", t, 0, FALSE, <<>>)
          /\ history' = [history EXCEPT !.visited = <<>>, !.fresh = TRUE]
          /\ pc' = pc
     ELSE IF ~CanBringIn(BpmWritePage(Bpm, header_page_id_), ReadRoot(Bpm).root_page_id_)
     THEN /\ pc' = [pc EXCEPT ![t] = "abort"]
          /\ ret' = NoCall
          /\ UNCHANGED <<next_page_id_, free_frames_, page_table_, frames_, disk, op,
                         history>>
     ELSE \E r \in {Begin(ReadRoot(Bpm).bpm)} :
              /\ Install(r.bpm)
              /\ op' = [op EXCEPT ![t].it = r.it]
              /\ ret' = [Returned("Begin", t, 0, FALSE, <<>>) EXCEPT !.it = r.it]
              /\ history' = [history EXCEPT !.visited = <<KeyUnder(r.bpm, r.it)>>,
                                            !.fresh = TRUE]
              /\ pc' = pc
  /\ TreeUnchanged

\* BPlusTree::Begin(key): FindLeafPage takes WritePage(ctx.root_page_id_), which
\* aborts the process for the INVALID_PAGE_ID of the empty tree
TreeBeginKey(t, key) ==
  /\ pc[t] = "idle"
  /\ ~Aborted
  /\ IF ~CanBringIn(BpmWritePage(Bpm, header_page_id_),
                     RootPageId(BpmWritePage(Bpm, header_page_id_)))
     THEN /\ pc' = [pc EXCEPT ![t] = "abort"]
          /\ ret' = Returned("Begin(key)", t, key, FALSE, <<>>)
          /\ UNCHANGED <<next_page_id_, free_frames_, page_table_, frames_, disk, op>>
     ELSE \E r \in {BeginKey(Bpm, key)} :
              /\ Install(r.bpm)
              /\ op' = [op EXCEPT ![t].it = r.it]
              /\ ret' = [Returned("Begin(key)", t, key, FALSE, <<>>) EXCEPT
                           !.it = r.it, !.thrown = r.thrown]
              /\ pc' = pc
  /\ history' = [history EXCEPT !.fresh = FALSE]
  /\ TreeUnchanged

\* IndexIterator::operator++ on the iterator of thread t
TreeIncrement(t) ==
  /\ pc[t] = "idle"
  /\ ~Aborted
  /\ IF ~IsEnd(op[t].it) /\ ~CanBringIn(Bpm, op[t].it.page_id_)
     THEN /\ pc' = [pc EXCEPT ![t] = "abort"]
          /\ ret' = NoCall
          /\ UNCHANGED <<next_page_id_, free_frames_, page_table_, frames_, disk, op,
                         history>>
     ELSE \E r \in {Increment(Bpm, op[t].it)} :
              /\ Install(r.bpm)
              /\ op' = [op EXCEPT ![t].it = r.it]
              /\ ret' = [Returned("operator++", t, 0, FALSE, <<>>) EXCEPT !.it = r.it]
              /\ history' = [history EXCEPT
                               !.visited = IF IsEnd(r.it) THEN @
                                           ELSE Append(@, KeyUnder(r.bpm, r.it))]
              /\ pc' = pc
  /\ TreeUnchanged

\* the tree on a pool of MinTreeFrames to TreeFrames frames
TreeInit == \E num_frames \in MinTreeFrames..TreeFrames : TreeOn(num_frames)

\* one client: a sequence of calls
TreeNext ==
  \/ \E key \in Keys, value \in Values : TreeInsert(1, key, value)
  \/ \E key \in Keys : TreeGetValue(1, key)
  \/ TreeGetRootPageId(1)
  \/ TreeGetValueFind(1)
  \/ \E key \in Keys : TreeRemove(1, key)
  \/ TreeRemoveFind(1)
  \/ TreeBegin(1)
  \/ \E key \in Keys : TreeBeginKey(1, key)
  \/ TreeIncrement(1)

TreeSpec == TreeInit /\ [][TreeNext]_vars

ReadersWritersInit == TreeOn(TreeFrames)

\* a reader, thread 1, calling GetValue while a writer, thread 2, calls Insert
\* and Remove
ReadersWritersNext ==
  \/ \E key \in Keys : TreeGetValue(1, key)
  \/ TreeGetRootPageId(1)
  \/ TreeGetValueFind(1)
  \/ \E key \in Keys, value \in Values : TreeInsert(2, key, value)
  \/ \E key \in Keys : TreeRemove(2, key)
  \/ TreeRemoveFind(2)

ReadersWritersSpec == ReadersWritersInit /\ [][ReadersWritersNext]_vars

\* ======================================================= the executors
\* An executor is driven on inputs of its own: op holds the plan and the tables
\* the children produce, pc where each executor is, ret what Next() has
\* produced, history the members of the executors. The buffer pool is not used.
ExecutorOnly ==
  /\ num_frames_ = 0
  /\ next_page_id_ = 0
  /\ free_frames_ = <<>>
  /\ page_table_ = <<>>
  /\ frames_ = <<>>
  /\ rwlatch_ = <<>>
  /\ bpm_latch_ = NoThread
  /\ replacer_ = <<>>
  /\ request_queue_ = <<>>
  /\ background_thread_ = "-"
  /\ promise = <<>>
  /\ disk = <<>>
  /\ guard = <<>>
  /\ that = <<>>

ExecutorUnchanged ==
  UNCHANGED <<num_frames_, next_page_id_, free_frames_, page_table_, frames_, rwlatch_,
              bpm_latch_, replacer_, request_queue_, background_thread_, promise, disk,
              guard, that>>

Cells == 1..MaxCell

\* the number of times x occurs in the sequence s
Count(s, x) == Cardinality({i \in DOMAIN s : s[i] = x})

\* the sequences s and t hold the same elements the same number of times
SameBag(s, t) ==
  /\ Len(s) = Len(t)
  /\ \A i \in DOMAIN s : Count(s, s[i]) = Count(t, s[i])

\* ------------------------------------------- sequential scan and index scan
\* a table of two integer columns; the RID of a row is its position. The
\* catalog has one index on the table, on column 0.
ScanRows == [values : [{0, 1} -> Cells], is_deleted_ : BOOLEAN]
ScanTables == UNION {[1..n -> ScanRows] : n \in 0..MaxRows}

\* a B+Tree index holds one entry per key: the rows that are not deleted differ
\* in the indexed column
UniqueKeys(table) ==
  \A i, j \in DOMAIN table :
    (i # j /\ ~table[i].is_deleted_ /\ ~table[j].is_deleted_) =>
      table[i].values[0] # table[j].values[0]

\* ComparisonExpression(ColumnValueExpression(col) = ConstantValueExpression(val))
Equal(col, val) == [type |-> "Comparison", comp_type_ |-> "Equal", col |-> col, val |-> val]
\* LogicExpression(left OR right)
Or(left, right) == [type |-> "Logic", logic_type_ |-> "Or", left |-> left, right |-> right]

Equalities == {Equal(col, val) : col \in {0, 1}, val \in Cells}
Predicates == Equalities \cup {Or(l, r) : l \in Equalities, r \in Equalities}

\* AbstractExpression::Evaluate of a predicate on a row; no column is NULL
Evaluate(expr, row) ==
  IF expr.type = "Comparison" THEN row.values[expr.col] = expr.val
  ELSE \/ row.values[expr.left.col] = expr.left.val
       \/ row.values[expr.right.col] = expr.right.val

\* IsIndexFriendly
IsIndexFriendly(expr, target_column_idx) ==
  IF expr.type = "Comparison" THEN expr.col = target_column_idx
  ELSE expr.left.col = target_column_idx /\ expr.right.col = target_column_idx

\* ExtractEqualityConditions
ExtractEqualityConditions(expr, target_column_idx) ==
  IF expr.type = "Comparison"
  THEN IF expr.col = target_column_idx THEN <<expr.val>> ELSE <<>>
  ELSE (IF expr.left.col = target_column_idx THEN <<expr.left.val>> ELSE <<>>)
         \o (IF expr.right.col = target_column_idx THEN <<expr.right.val>> ELSE <<>>)

NullPtr == [type |-> "nullptr"]

SeqScanPlanNode(filter_predicate) ==
  [type |-> "SeqScan", filter_predicate_ |-> filter_predicate, pred_keys_ |-> <<>>]
IndexScanPlanNode(filter_predicate, pred_keys) ==
  [type |-> "IndexScan", filter_predicate_ |-> filter_predicate, pred_keys_ |-> pred_keys]

\* Optimizer::OptimizeSeqScanAsIndexScan of a sequential scan with a filter
\* on the table, whose one index is on column 0
OptimizeSeqScanAsIndexScan(plan) ==
  IF ~IsIndexFriendly(plan.filter_predicate_, 0) THEN plan
  ELSE IF ExtractEqualityConditions(plan.filter_predicate_, 0) = <<>> THEN plan
  ELSE IndexScanPlanNode(NullPtr, ExtractEqualityConditions(plan.filter_predicate_, 0))

\* does the executor of plan return the row: it is not deleted and the filter
\* of the plan, when there is one, evaluates to true
Passes(plan, row) ==
  /\ ~row.is_deleted_
  /\ plan.filter_predicate_ # NullPtr => Evaluate(plan.filter_predicate_, row)

\* the position of the first row from position from on that the executor
\* returns, 0 when there is none
NextPassing(plan, table, rids, from) ==
  IF \A i \in from..Len(rids) : ~Passes(plan, table[rids[i]]) THEN 0
  ELSE Lowest({i \in from..Len(rids) : Passes(plan, table[rids[i]])})

\* tree_->GetBeginIterator() to GetEndIterator(): the RIDs in the index, in the
\* order of the keys
RECURSIVE IndexRids(_, _)
IndexRids(table, left) ==
  IF left = {} THEN <<>>
  ELSE <<CHOOSE i \in left : \A j \in left : table[i].values[0] <= table[j].values[0]>>
         \o IndexRids(table,
                      left \ {CHOOSE i \in left :
                                \A j \in left : table[i].values[0] <= table[j].values[0]})

\* the members of an executor before Init(); rids is the order in which the
\* executor walks the table and pos the next position in it
NoExecutor == [rids |-> <<>>, pos |-> 1, scan_finished_ |-> FALSE]

ScanInit ==
  /\ ExecutorOnly
  /\ \E table \in ScanTables, predicate \in Predicates :
         /\ UniqueKeys(table)
         /\ op = [table |-> table, plan |-> SeqScanPlanNode(predicate),
                  optimized |-> NullPtr]
  /\ pc = [plan |-> "Init", optimized |-> "plan"]
  /\ ret = [plan |-> <<>>, optimized |-> <<>>]
  /\ history = [plan |-> NoExecutor, optimized |-> NoExecutor]

\* the optimizer rewrites the plan
Optimize ==
  /\ pc.optimized = "plan"
  /\ op' = [op EXCEPT !.optimized = OptimizeSeqScanAsIndexScan(op.plan)]
  /\ pc' = [pc EXCEPT !.optimized = "Init"]
  /\ UNCHANGED <<ret, history>>
  /\ ExecutorUnchanged

\* SeqScanExecutor::Init of the executor of op[side]
SeqScanInit(side) ==
  /\ pc[side] = "Init"
  /\ op[side].type = "SeqScan"
  /\ history' = [history EXCEPT ![side] = [NoExecutor EXCEPT
                                             !.rids = [i \in DOMAIN op.table |-> i]]]
  /\ pc' = [pc EXCEPT ![side] = "Next"]
  /\ UNCHANGED <<op, ret>>
  /\ ExecutorUnchanged

\* IndexScanExecutor::Init, and the collection of the RIDs that the first
\* Next() makes
IndexScanInit(side) ==
  /\ pc[side] = "Init"
  /\ op[side].type = "IndexScan"
  /\ history' = [history EXCEPT ![side] = [NoExecutor EXCEPT
                   !.rids = IndexRids(op.table,
                                      {i \in DOMAIN op.table : ~op.table[i].is_deleted_})]]
  /\ pc' = [pc EXCEPT ![side] = "Next"]
  /\ UNCHANGED <<op, ret>>
  /\ ExecutorUnchanged

\* SeqScanExecutor::Next and IndexScanExecutor::Next: both walk their RIDs and
\* return the next row that is not deleted and passes plan_->filter_predicate_;
\* IndexScanExecutor::Next reads nothing else of its plan
ReturnNext(side) ==
  /\ pc[side] = "Next"
  /\ \E i \in {NextPassing(op[side], op.table, history[side].rids, history[side].pos)} :
         IF i = 0
         THEN /\ pc' = [pc EXCEPT ![side] = "false"]
              /\ history' = [history EXCEPT ![side].pos = Len(history[side].rids) + 1,
                                            ![side].scan_finished_ = TRUE]
              /\ ret' = ret
         ELSE /\ pc' = pc
              /\ history' = [history EXCEPT ![side].pos = i + 1]
              /\ ret' = [ret EXCEPT ![side] = Append(@, op.table[history[side].rids[i]].values)]
  /\ UNCHANGED op
  /\ ExecutorUnchanged

SeqScanNext(side) == op[side].type = "SeqScan" /\ ReturnNext(side)

IndexScanNext(side) == op[side].type = "IndexScan" /\ ReturnNext(side)

ScanNext ==
  \/ Optimize
  \/ \E side \in {"plan", "optimized"} : SeqScanInit(side)
  \/ IndexScanInit("optimized")
  \/ \E side \in {"plan", "optimized"} : SeqScanNext(side)
  \/ IndexScanNext("optimized")

ScanSpec == ScanInit /\ [][ScanNext]_vars

\* ------------------------------------------- hash join and nested loop join
\* Both joins are driven on the same two children, each a scan that produces
\* the rows of a table of one column in order; the join condition is
\* left column = right column, and a column may be NULL.
Null == 0
JoinRows == {Null} \cup Cells
JoinTables == UNION {[1..n -> JoinRows] : n \in 0..MaxRows}

\* Value::CompareEquals(...) == CmpBool::CmpTrue, and the join predicate being
\* neither NULL nor false: a comparison with NULL is not true
CompareEquals(lhs, rhs) == lhs # Null /\ rhs # Null /\ lhs = rhs

\* the tuples of s from position from on, in order, whose key equals key
RECURSIVE Select(_, _, _)
Select(s, key, from) ==
  IF from > Len(s) THEN <<>>
  ELSE (IF CompareEquals(s[from], key) THEN <<s[from]>> ELSE <<>>)
         \o Select(s, key, from + 1)

\* HashJoinExecutor::Init, the build phase: hash_table_[right_key] is the right
\* tuples with that key in the order the right child produced them
Build(right) == [key \in JoinRows |-> Select(right, key, 1)]

FindFirst(hash_table, left_key) ==
  IF left_key = Null \/ hash_table[left_key] = <<>> THEN <<>>
  ELSE <<Head(hash_table[left_key])>>

\* hash_table_.find(left_key) under EqualKey: a NULL key is equal to no key
Find(hash_table, left_key) ==
  IF left_key = Null THEN <<>> ELSE hash_table[left_key]

NoHashJoin ==
  [hash_table_ |-> <<>>, left_pos |-> 1, left_tuple_ |-> Null, current_matches_ |-> <<>>,
   match_index_ |-> 0, has_left_tuple_ |-> FALSE, left_tuple_matched_ |-> FALSE]

RECURSIVE HashJoinLoop(_, _, _)
\* HashJoinExecutor::Next, its while loop: the members after the call, whether
\* it returns true, and the tuple it produces
HashJoinLoop(e, join_type, left) ==
  IF e.has_left_tuple_ /\ e.match_index_ < Len(e.current_matches_)
  THEN [e |-> [e EXCEPT !.match_index_ = @ + 1, !.left_tuple_matched_ = TRUE],
        ret |-> TRUE, tuple |-> <<e.left_tuple_, e.current_matches_[e.match_index_ + 1]>>]
  ELSE IF join_type = "LEFT" /\ e.has_left_tuple_ /\ ~e.left_tuple_matched_
  THEN [e |-> [e EXCEPT !.has_left_tuple_ = FALSE],
        ret |-> TRUE, tuple |-> <<e.left_tuple_, Null>>]
  ELSE IF e.left_pos > Len(left)
  THEN [e |-> e, ret |-> FALSE, tuple |-> <<>>]
  ELSE HashJoinLoop([e EXCEPT !.left_pos = @ + 1,
                              !.left_tuple_ = left[e.left_pos],
                              !.has_left_tuple_ = TRUE,
                              !.left_tuple_matched_ = FALSE,
                              !.match_index_ = 0,
                              !.current_matches_ = Find(e.hash_table_, left[e.left_pos])],
                    join_type, left)

NoNestedLoopJoin ==
  [left_pos |-> 1, right_pos |-> 1, left_tuple_ |-> Null, left_tuple_fetched_ |-> FALSE,
   left_matched_ |-> FALSE]

RECURSIVE NestedLoopJoinLoop(_, _, _, _)
\* NestedLoopJoinExecutor::Next, its while loop
NestedLoopJoinLoop(e, join_type, left, right) ==
  IF ~e.left_tuple_fetched_
  THEN IF e.left_pos > Len(left)
       THEN [e |-> e, ret |-> FALSE, tuple |-> <<>>]
       ELSE NestedLoopJoinLoop([e EXCEPT !.left_pos = @ + 1,
                                         !.left_tuple_ = left[e.left_pos],
                                         !.left_tuple_fetched_ = TRUE,
                                         !.left_matched_ = FALSE,
                                         !.right_pos = 1],
                               join_type, left, right)
  ELSE IF e.right_pos <= Len(right)
  THEN IF CompareEquals(e.left_tuple_, right[e.right_pos])
       THEN [e |-> [e EXCEPT !.right_pos = @ + 1, !.left_matched_ = TRUE],
             ret |-> TRUE, tuple |-> <<e.left_tuple_, right[e.right_pos]>>]
       ELSE NestedLoopJoinLoop([e EXCEPT !.right_pos = @ + 1], join_type, left, right)
  ELSE IF join_type = "LEFT" /\ ~e.left_matched_
  THEN [e |-> [e EXCEPT !.left_tuple_fetched_ = FALSE],
        ret |-> TRUE, tuple |-> <<e.left_tuple_, Null>>]
  ELSE NestedLoopJoinLoop([e EXCEPT !.left_tuple_fetched_ = FALSE], join_type, left, right)

JoinInit ==
  /\ ExecutorOnly
  /\ \E left \in JoinTables, right \in JoinTables, join_type \in {"INNER", "LEFT"} :
         op = [left |-> left, right |-> right, join_type |-> join_type]
  /\ pc = [hash |-> "Init", nested |-> "Init"]
  /\ ret = [hash |-> <<>>, nested |-> <<>>]
  /\ history = [hash |-> NoHashJoin, nested |-> NoNestedLoopJoin]

\* HashJoinExecutor::Init
HashJoinInit ==
  /\ pc.hash = "Init"
  /\ history' = [history EXCEPT !.hash = [NoHashJoin EXCEPT
                                             !.hash_table_ = Build(op.right)]]
  /\ pc' = [pc EXCEPT !.hash = "Next"]
  /\ UNCHANGED <<op, ret>>
  /\ ExecutorUnchanged

\* HashJoinExecutor::Next
HashJoinNext ==
  /\ pc.hash = "Next"
  /\ \E r \in {HashJoinLoop(history.hash, op.join_type, op.left)} :
         /\ history' = [history EXCEPT !.hash = r.e]
         /\ ret' = [ret EXCEPT !.hash = IF r.ret THEN Append(@, r.tuple) ELSE @]
         /\ pc' = [pc EXCEPT !.hash = IF r.ret THEN "Next" ELSE "false"]
  /\ UNCHANGED op
  /\ ExecutorUnchanged

\* NestedLoopJoinExecutor::Init
NestedLoopJoinInit ==
  /\ pc.nested = "Init"
  /\ history' = [history EXCEPT !.nested = NoNestedLoopJoin]
  /\ pc' = [pc EXCEPT !.nested = "Next"]
  /\ UNCHANGED <<op, ret>>
  /\ ExecutorUnchanged

\* NestedLoopJoinExecutor::Next
NestedLoopJoinNext ==
  /\ pc.nested = "Next"
  /\ \E r \in {NestedLoopJoinLoop(history.nested, op.join_type, op.left, op.right)} :
         /\ history' = [history EXCEPT !.nested = r.e]
         /\ ret' = [ret EXCEPT !.nested = IF r.ret THEN Append(@, r.tuple) ELSE @]
         /\ pc' = [pc EXCEPT !.nested = IF r.ret THEN "Next" ELSE "false"]
  /\ UNCHANGED op
  /\ ExecutorUnchanged

JoinNext ==
  \/ HashJoinInit
  \/ HashJoinNext
  \/ NestedLoopJoinInit
  \/ NestedLoopJoinNext

JoinSpec == JoinInit /\ [][JoinNext]_vars

\* ------------------------------------------------- external merge sort
\* A tuple of the child is <<key, position>>: the order-by key and the place
\* of the tuple in the child's output, which tells tuples of equal key apart.
\* A sort page is the sequence of its tuples, a run the sequence of its pages.
\* Pages are taken from the pool one per NewPage and a page is read back as it
\* was written: DeletePage writes the page out before it gives up the frame,
\* so the pages of the odd run that MergeRuns copies and then deletes are
\* still read by the next pass.
SortChildren ==
  {[i \in DOMAIN keys |-> <<keys[i], i>>] :
     keys \in UNION {[1..n -> Cells] : n \in 0..MaxSortRows}}

\* SortPage::Init: the tuples a sort page holds
max_tuple_count_ == 2

\* TupleComparator on the sort entries of the tuples a and b: a sorts before b
TupleComparator(a, b) == a[1] < b[1]

\* the tuples of all the pages of a run, in order
RECURSIVE RunTuples(_)
RunTuples(run) ==
  IF run = <<>> THEN <<>> ELSE Head(run) \o RunTuples(Tail(run))

\* ExternalMergeSortExecutor::SortPageTuples: std::sort of the page's entries
\* under cmp_, written back to the page. std::sort leaves the order of entries
\* that cmp_ does not tell apart open: the outcomes are the arrangements of
\* the page's tuples in which no tuple stands after one it sorts before.
SortPageTuples(page) ==
  {sorted \in [DOMAIN page -> {page[i] : i \in DOMAIN page}] :
     /\ \A i \in DOMAIN page : \E j \in DOMAIN page : sorted[j] = page[i]
     /\ \A i, j \in DOMAIN page : i < j => ~TupleComparator(sorted[j], sorted[i])}

RECURSIVE Paginate(_)
\* tuples put one after the other into sort pages, a new page taken whenever
\* the current one IsFull; a page left without tuples is deleted
Paginate(tuples) ==
  IF tuples = <<>> THEN <<>>
  ELSE IF Len(tuples) <= max_tuple_count_ THEN <<tuples>>
  ELSE <<SubSeq(tuples, 1, max_tuple_count_)>>
         \o Paginate(SubSeq(tuples, max_tuple_count_ + 1, Len(tuples)))

\* ExternalMergeSortExecutor::CreateInitialRuns: one run of one sorted page for
\* every page the child's tuples fill
CreateInitialRuns(child) ==
  {[i \in DOMAIN Paginate(child) |-> <<sorted[i]>>] :
     sorted \in {sorted \in [DOMAIN Paginate(child) ->
                               UNION {SortPageTuples(Paginate(child)[i]) :
                                        i \in DOMAIN Paginate(child)}] :
                   \A i \in DOMAIN Paginate(child) :
                     sorted[i] \in SortPageTuples(Paginate(child)[i])}}

RECURSIVE Merge(_, _)
\* the loops of MergeTwoRuns over the two iterators: the tuple of run1 is
\* taken when cmp_ puts it before the tuple of run2, else the one of run2
Merge(tuples1, tuples2) ==
  IF tuples1 = <<>> THEN tuples2
  ELSE IF tuples2 = <<>> THEN tuples1
  ELSE IF TupleComparator(Head(tuples1), Head(tuples2))
  THEN <<Head(tuples1)>> \o Merge(Tail(tuples1), tuples2)
  ELSE <<Head(tuples2)>> \o Merge(tuples1, Tail(tuples2))

\* ExternalMergeSortExecutor::MergeTwoRuns
MergeTwoRuns(run1, run2) == Paginate(Merge(RunTuples(run1), RunTuples(run2)))

RECURSIVE MergeRuns(_)
\* ExternalMergeSortExecutor::MergeRuns: the runs merged two by two, an odd
\* last run copied
MergeRuns(input_runs) ==
  IF input_runs = <<>> THEN <<>>
  ELSE IF Len(input_runs) = 1 THEN input_runs
  ELSE <<MergeTwoRuns(input_runs[1], input_runs[2])>>
         \o MergeRuns(SubSeq(input_runs, 3, Len(input_runs)))

RECURSIVE MergeUntilOne(_)
\* ExternalMergeSortExecutor::Init, phase 2: while (runs.size() > 1)
MergeUntilOne(runs) ==
  IF Len(runs) > 1 THEN MergeUntilOne(MergeRuns(runs)) ELSE runs

\* the page ids of the runs beside their tuples: ids[i] is the page ids of
\* runs[i], and the pool gives out the ids next, next + 1, ... (NewPage)
FreshIds(next, n) == [i \in 1..n |-> next + i - 1]

\* all the page ids of the runs ids
AllPageIds(ids) == UNION {{ids[i][j] : j \in DOMAIN ids[i]} : i \in DOMAIN ids}

\* CreateInitialRuns: one page id per run
CreateInitialRunIds(child) == [i \in DOMAIN Paginate(child) |-> <<i - 1>>]

RECURSIVE MergeRunIds(_, _, _)
\* MergeRuns on the page ids: the merged run has new pages, the odd last run
\* is copied with the page ids it has
MergeRunIds(input_runs, ids, next) ==
  IF Len(input_runs) <= 1 THEN ids
  ELSE <<FreshIds(next, Len(MergeTwoRuns(input_runs[1], input_runs[2])))>>
         \o MergeRunIds(SubSeq(input_runs, 3, Len(input_runs)), SubSeq(ids, 3, Len(ids)),
                        next + Len(MergeTwoRuns(input_runs[1], input_runs[2])))

\* the number of pages MergeRuns takes from the pool
RECURSIVE MergeRunPages(_)
MergeRunPages(input_runs) ==
  IF Len(input_runs) <= 1 THEN 0
  ELSE Len(MergeTwoRuns(input_runs[1], input_runs[2]))
         + MergeRunPages(SubSeq(input_runs, 3, Len(input_runs)))

RECURSIVE MergePasses(_, _, _, _)
\* Init, phase 2, on the page ids: pages_ is the page ids of the runs left,
\* carried the page ids that MergeRuns passed to DeletePage (:273-277: the
\* pages of every input run) while a run it returned held them
MergePasses(runs, ids, next, carried) ==
  IF Len(runs) <= 1 THEN [pages_ |-> ids, carried |-> carried]
  ELSE MergePasses(MergeRuns(runs), MergeRunIds(runs, ids, next),
                   next + MergeRunPages(runs),
                   carried \cup (AllPageIds(ids) \cap AllPageIds(MergeRunIds(runs, ids, next))))

\* MergeSortRun::Iterator; current_page_ is whether the page pointer is set.
\* run_ has no initializer: in an iterator made by Iterator() = default it
\* holds whatever the memory held, which either is the address of final_run_
\* or is not.
RunIterator(run_, page_index_, tuple_index_, current_page_) ==
  [run_ |-> run_, page_index_ |-> page_index_, tuple_index_ |-> tuple_index_,
   current_page_ |-> current_page_]

\* MergeSortRun::Iterator::operator++
RunIncrement(run, it) ==
  IF it.current_page_ /\ it.tuple_index_ + 1 >= Len(run[it.page_index_ + 1])
  THEN RunIterator(it.run_, it.page_index_ + 1, 0, it.page_index_ + 1 < Len(run))
  ELSE [it EXCEPT !.tuple_index_ = @ + 1]

\* MergeSortRun::Begin
RunBegin(run) ==
  IF run = <<>> THEN RunIterator("final_run_", 0, 0, FALSE)
  ELSE IF Len(run[1]) = 0 THEN RunIncrement(run, RunIterator("final_run_", 0, 0, TRUE))
  ELSE RunIterator("final_run_", 0, 0, TRUE)

\* MergeSortRun::End
RunEnd(run) == RunIterator("final_run_", Len(run), 0, FALSE)

\* MergeSortRun::Iterator::operator==
RunIteratorEqual(it, other) ==
  /\ it.run_ = other.run_
  /\ it.page_index_ = other.page_index_
  /\ it.tuple_index_ = other.tuple_index_

\* MergeSortRun::Iterator::operator* throws on an iterator without a tuple
RunOutOfRange(run, it) ==
  \/ ~it.current_page_
  \/ it.tuple_index_ >= Len(run[it.page_index_ + 1])

\* the executor after its constructor, for a child and for what run_ of the
\* default-made result_iterator_ happens to hold; history.pages_ is the page
\* ids of final_run_ and history.carried the page ids deleted under a run
SortInit ==
  /\ ExecutorOnly
  /\ \E child \in SortChildren : op = [child |-> child]
  /\ pc = "Init"
  /\ ret = <<>>
  /\ \E run_ \in {"final_run_", "indeterminate"} :
         history = [runs |-> <<>>, final_run_ |-> <<>>,
                    result_iterator_ |-> RunIterator(run_, 0, 0, FALSE),
                    pages_ |-> <<>>, carried |-> {}]

\* the executor after Init made the initial runs and merged them to runs
Sorted(initial, runs) ==
  IF runs # <<>>
  THEN [runs |-> runs, final_run_ |-> runs[1],
        result_iterator_ |-> RunBegin(runs[1]),
        pages_ |-> MergePasses(initial, CreateInitialRunIds(op.child), Len(initial), {}).pages_[1],
        carried |-> MergePasses(initial, CreateInitialRunIds(op.child), Len(initial), {}).carried]
  ELSE [history EXCEPT !.runs = runs]

\* ExternalMergeSortExecutor::Init
ExternalMergeSortInit ==
  /\ pc = "Init"
  /\ \E initial \in CreateInitialRuns(op.child) :
         history' = Sorted(initial, MergeUntilOne(initial))
  /\ pc' = "Next"
  /\ UNCHANGED <<op, ret>>
  /\ ExecutorUnchanged

\* ExternalMergeSortExecutor::Next, also called again after it returned false
ExternalMergeSortNext ==
  /\ pc \in {"Next", "false"}
  /\ IF RunIteratorEqual(history.result_iterator_, RunEnd(history.final_run_))
     THEN pc' = "false" /\ UNCHANGED <<ret, history>>
     ELSE IF RunOutOfRange(history.final_run_, history.result_iterator_)
     THEN pc' = "throw" /\ UNCHANGED <<ret, history>>
     ELSE /\ pc = "Next"
          /\ pc' = "Next"
          /\ ret' = Append(ret, history.final_run_[history.result_iterator_.page_index_ + 1]
                                                  [history.result_iterator_.tuple_index_ + 1])
          /\ history' = [history EXCEPT !.result_iterator_ =
                            RunIncrement(history.final_run_, @)]
  /\ UNCHANGED op
  /\ ExecutorUnchanged

SortNext ==
  \/ ExternalMergeSortInit
  \/ ExternalMergeSortNext

SortSpec == SortInit /\ [][SortNext]_vars

\* ---------------------------------------- insert, update and delete executors
\* One table of one column, with or without one B+Tree index on the column;
\* the RID of a row is its position in the table heap. The index is the tree
\* above on its own buffer pool; the table heap is kept in history.table_.
\* The child of an Insert produces op.values; the child of an Update or a
\* Delete is a sequential scan of the table, which produces the rows that are
\* not deleted up to the last row the table had at Init.
HeapRows == [value : Cells, is_deleted_ : BOOLEAN]
Heaps == UNION {[1..n -> HeapRows] : n \in 0..MaxRows}
InsertValues == UNION {[1..n -> Cells] : n \in 0..MaxRows}

\* the RIDs of the rows of a table heap that are not deleted, in order
RECURSIVE LiveRids(_, _)
LiveRids(heap, from) ==
  IF from > Len(heap) THEN <<>>
  ELSE (IF heap[from].is_deleted_ THEN <<>> ELSE <<from>>) \o LiveRids(heap, from + 1)

\* TableHeap::InsertTuple with TupleMeta{}: the row is appended
InsertTuple(heap, value) == Append(heap, [value |-> value, is_deleted_ |-> FALSE])

\* TableHeap::UpdateTupleMeta with is_deleted_ = true
UpdateTupleMeta(heap, rid) == [heap EXCEPT ![rid].is_deleted_ = TRUE]

\* Index::InsertEntry on the B+Tree index: BPlusTree::Insert
InsertEntry(bpm, key, rid) == Insert(bpm, key, rid)

\* Index::DeleteEntry on the B+Tree index: BPlusTree::Remove, the pool after
DeleteEntry(bpm, key) ==
  IF ReadRoot(bpm).root_page_id_ = INVALID_PAGE_ID THEN ReadRoot(bpm).bpm
  ELSE BPlusTreeRemove(ReadRoot(bpm).bpm, key)

\* what the loop of a Next() leaves: the table heap, the pool of the index,
\* the rows counted, and whether an exception left the loop
Drained(heap, bpm, count, thrown) ==
  [table_ |-> heap, bpm |-> bpm, count |-> count, thrown |-> thrown]

RECURSIVE InsertLoop(_, _, _, _, _)
\* InsertExecutor::Next, the loop over the child's tuples
InsertLoop(heap, bpm, values, indexed, count) ==
  IF values = <<>> THEN Drained(heap, bpm, count, FALSE)
  ELSE IF ~indexed
  THEN InsertLoop(InsertTuple(heap, Head(values)), bpm, Tail(values), indexed, count + 1)
  ELSE IF InsertEntry(bpm, Head(values), Len(heap) + 1).thrown
  THEN Drained(InsertTuple(heap, Head(values)),
               InsertEntry(bpm, Head(values), Len(heap) + 1).bpm, count + 1, TRUE)
  ELSE InsertLoop(InsertTuple(heap, Head(values)),
                  InsertEntry(bpm, Head(values), Len(heap) + 1).bpm,
                  Tail(values), indexed, count + 1)

RECURSIVE DeleteLoop(_, _, _, _, _)
\* DeleteExecutor::Next, the loop over the child's RIDs
DeleteLoop(heap, bpm, rids, indexed, count) ==
  IF rids = <<>> THEN Drained(heap, bpm, count, FALSE)
  ELSE IF heap[Head(rids)].is_deleted_
  THEN DeleteLoop(heap, bpm, Tail(rids), indexed, count)
  ELSE DeleteLoop(UpdateTupleMeta(heap, Head(rids)),
                  IF indexed THEN DeleteEntry(bpm, heap[Head(rids)].value) ELSE bpm,
                  Tail(rids), indexed, count + 1)

RECURSIVE UpdateLoop(_, _, _, _, _, _)
\* UpdateExecutor::Next, the loop over the child's RIDs; target is the value
\* plan_->target_expressions_ gives the column
UpdateLoop(heap, bpm, rids, indexed, target, count) ==
  IF rids = <<>> THEN Drained(heap, bpm, count, FALSE)
  ELSE IF ~indexed
  THEN UpdateLoop(InsertTuple(UpdateTupleMeta(heap, Head(rids)), target), bpm,
                  Tail(rids), indexed, target, count + 1)
  ELSE IF InsertEntry(DeleteEntry(bpm, heap[Head(rids)].value), target, Len(heap) + 1).thrown
  THEN Drained(InsertTuple(UpdateTupleMeta(heap, Head(rids)), target),
               InsertEntry(DeleteEntry(bpm, heap[Head(rids)].value), target,
                           Len(heap) + 1).bpm,
               count, TRUE)
  ELSE UpdateLoop(InsertTuple(UpdateTupleMeta(heap, Head(rids)), target),
                  InsertEntry(DeleteEntry(bpm, heap[Head(rids)].value), target,
                              Len(heap) + 1).bpm,
                  Tail(rids), indexed, target, count + 1)

\* what a call of Next() returned
NextReturned(r, tuple, thrown) ==
  [call |-> "Next", ret |-> r, tuple |-> tuple, thrown |-> thrown]

\* the executor constructed on a table; executed_ of the UpdateExecutor is
\* false from its declaration. history holds the executor's members and the
\* table heap, and of the calls so far: calls, the calls of Next() since the
\* last Init(); rows, the rows the child had to produce at the last Init();
\* before, the table heap and the index pool before the last Next()
ModifyInit ==
  /\ num_frames_ = TreeFrames
  /\ \E constructed \in {Constructed(TreeFrames)} :
         /\ next_page_id_ = constructed.next_page_id_
         /\ free_frames_ = constructed.free_frames_
         /\ page_table_ = constructed.page_table_
         /\ frames_ = constructed.frames_
         /\ disk = constructed.disk
  /\ rwlatch_ = [f \in TreeFrameIds |-> [writer |-> NoThread, readers |-> {}]]
  /\ bpm_latch_ = NoThread
  /\ replacer_ = [node_store_ |-> <<>>, current_timestamp_ |-> 0, curr_size_ |-> 0]
  /\ request_queue_ = <<>>
  /\ background_thread_ = "running"
  /\ promise = [t \in Threads |-> "none"]
  /\ guard = [t \in Threads |-> NoGuard]
  /\ that = [t \in Threads |-> NoGuard]
  /\ pc = "constructed"
  /\ \E type \in {"Insert", "Update", "Delete"}, values \in InsertValues,
        target \in Cells, indexed \in BOOLEAN :
         /\ type # "Insert" => values = <<>>
         /\ type # "Update" => target = 1
         /\ op = [type |-> type, values |-> values, target |-> target,
                  indexed |-> indexed]
  /\ ret = [NextReturned(FALSE, <<>>, FALSE) EXCEPT !.call = "-"]
  /\ \E heap \in Heaps :
         history = [executed_ |-> FALSE, table_ |-> heap, rids |-> <<>>, inits |-> 0,
                    calls |-> 0, rows |-> 0,
                    before |-> [table_ |-> heap, bpm |-> Constructed(TreeFrames)]]

\* Init() of the executor once more is allowed MaxInits times
Initialized(executed, rows) ==
  /\ pc \in {"constructed", "Next"}
  /\ history.inits < MaxInits
  /\ history' = [history EXCEPT !.executed_ = executed,
                                !.rids = LiveRids(history.table_, 1),
                                !.inits = @ + 1,
                                !.calls = 0,
                                !.rows = rows]
  /\ pc' = "Next"
  /\ ret' = [ret EXCEPT !.call = "Init"]
  /\ UNCHANGED <<op, next_page_id_, free_frames_, page_table_, frames_, disk>>
  /\ TreeUnchanged

\* InsertExecutor::Init
InsertExecutorInit ==
  /\ op.type = "Insert"
  /\ Initialized(FALSE, Len(op.values))

\* DeleteExecutor::Init
DeleteExecutorInit ==
  /\ op.type = "Delete"
  /\ Initialized(FALSE, Len(LiveRids(history.table_, 1)))

\* UpdateExecutor::Init: executed_ is left as it is
UpdateExecutorInit ==
  /\ op.type = "Update"
  /\ Initialized(history.executed_, Len(LiveRids(history.table_, 1)))

\* Next() of the three executors around the loop that left drained, called
\* up to MaxNexts times after an Init()
Executed(drained) ==
  /\ pc = "Next"
  /\ history.calls < MaxNexts
  /\ IF history.executed_
     THEN /\ ret' = NextReturned(FALSE, <<>>, FALSE)
          /\ history' = [history EXCEPT !.calls = @ + 1,
                                        !.before = [table_ |-> history.table_, bpm |-> Bpm]]
          /\ UNCHANGED <<next_page_id_, free_frames_, page_table_, frames_, disk>>
     ELSE /\ ret' = IF drained.thrown THEN NextReturned(FALSE, <<>>, TRUE)
                    ELSE NextReturned(TRUE, <<drained.count>>, FALSE)
          /\ history' = [history EXCEPT !.executed_ = TRUE,
                                        !.table_ = drained.table_,
                                        !.calls = @ + 1,
                                        !.before = [table_ |-> history.table_, bpm |-> Bpm]]
          /\ Install(drained.bpm)
  /\ UNCHANGED <<pc, op>>
  /\ TreeUnchanged

\* InsertExecutor::Next
InsertExecutorNext ==
  /\ op.type = "Insert"
  /\ Executed(InsertLoop(history.table_, Bpm, op.values, op.indexed, 0))

\* DeleteExecutor::Next
DeleteExecutorNext ==
  /\ op.type = "Delete"
  /\ Executed(DeleteLoop(history.table_, Bpm, history.rids, op.indexed, 0))

\* UpdateExecutor::Next
UpdateExecutorNext ==
  /\ op.type = "Update"
  /\ Executed(UpdateLoop(history.table_, Bpm, history.rids, op.indexed, op.target, 0))

ModifyNext ==
  \/ InsertExecutorInit
  \/ DeleteExecutorInit
  \/ UpdateExecutorInit
  \/ InsertExecutorNext
  \/ DeleteExecutorNext
  \/ UpdateExecutorNext

ModifySpec == ModifyInit /\ [][ModifyNext]_vars

\* ------------------------------------------------------------- aggregation
\* The child produces rows of two columns, group and value; the plan groups by
\* the column group or by nothing, and has a list of aggregates over the
\* column value. A Value is an integer or the NULL of its type.
Integer(value) == [is_null |-> FALSE, value |-> value]
NullValue == [is_null |-> TRUE, value |-> 0]

AggregationRows == [group : Cells, value : Cells]
AggregationChildren == UNION {[1..n -> AggregationRows] : n \in 0..MaxRows}
AggregationTypes ==
  {<<"CountStarAggregate">>, <<"CountAggregate">>, <<"SumAggregate">>, <<"MinAggregate">>,
   <<"MaxAggregate">>, <<"CountStarAggregate", "SumAggregate">>}

\* SimpleAggregationHashTable::GenerateInitialAggregateValue
GenerateInitialAggregateValue(agg_types) ==
  [i \in DOMAIN agg_types |->
     IF agg_types[i] = "CountStarAggregate" THEN Integer(0) ELSE NullValue]

\* SimpleAggregationHashTable::CombineAggregateValues for one aggregate and an
\* input that is not NULL
Combined(agg_type, result, input) ==
  IF agg_type = "CountStarAggregate" THEN Integer(result.value + 1)
  ELSE IF result.is_null
  THEN (IF agg_type = "CountAggregate" THEN Integer(1) ELSE Integer(input))
  ELSE IF agg_type = "CountAggregate" THEN Integer(result.value + 1)
  ELSE IF agg_type = "SumAggregate" THEN Integer(result.value + input)
  ELSE IF agg_type = "MinAggregate"
  THEN Integer(IF input < result.value THEN input ELSE result.value)
  ELSE Integer(IF input > result.value THEN input ELSE result.value)

\* the hash table: its entries (key, val) in the order its iterator walks them
HasKey(aht, key) == \E i \in DOMAIN aht : aht[i].key = key

\* SimpleAggregationHashTable::InsertInitialValue
InsertInitialValue(aht, agg_types, key) ==
  Append(aht, [key |-> key, val |-> GenerateInitialAggregateValue(agg_types)])

\* SimpleAggregationHashTable::InsertCombine
InsertCombine(aht, agg_types, key, input) ==
  [i \in DOMAIN (IF HasKey(aht, key) THEN aht ELSE InsertInitialValue(aht, agg_types, key)) |->
     IF (IF HasKey(aht, key) THEN aht ELSE InsertInitialValue(aht, agg_types, key))[i].key = key
     THEN [key |-> key,
           val |-> [j \in DOMAIN agg_types |->
                      Combined(agg_types[j],
                               (IF HasKey(aht, key) THEN aht
                                ELSE InsertInitialValue(aht, agg_types, key))[i].val[j],
                               input)]]
     ELSE aht[i]]

\* AggregationExecutor::MakeAggregateKey: the group-by columns of the tuple
MakeAggregateKey(group_bys, tuple) == IF group_bys THEN <<tuple.group>> ELSE <<>>

RECURSIVE BuildAggregates(_, _, _, _)
\* AggregationExecutor::Init, the loop over the child's tuples
BuildAggregates(aht, plan, child, from) ==
  IF from > Len(child) THEN aht
  ELSE BuildAggregates(InsertCombine(aht, plan.agg_types,
                                     MakeAggregateKey(plan.group_bys, child[from]),
                                     child[from].value),
                       plan, child, from + 1)

InitialAlways(aht, plan) ==
  IF aht = <<>> THEN InsertInitialValue(aht, plan.agg_types, <<>>) ELSE aht

\* AggregationExecutor::Init after the loop: without group-by columns an empty
\* table gets the initial values under the empty key
InitialIfEmpty(aht, plan) ==
  IF ~plan.group_bys /\ aht = <<>> THEN InsertInitialValue(aht, plan.agg_types, <<>>)
  ELSE aht

\* the executor after its constructor: aht_ empty, aht_iterator_ at aht_.End()
AggregationInit ==
  /\ ExecutorOnly
  /\ \E child \in AggregationChildren, group_bys \in BOOLEAN, agg_types \in AggregationTypes :
         op = [child |-> child, group_bys |-> group_bys, agg_types |-> agg_types]
  /\ pc = "Init"
  /\ ret = <<>>
  /\ history = [aht_ |-> <<>>, aht_iterator_ |-> 1]

\* AggregationExecutor::Init
AggregationExecutorInit ==
  /\ pc = "Init"
  /\ history' = [aht_ |-> InitialIfEmpty(BuildAggregates(<<>>, op, op.child, 1), op),
                 aht_iterator_ |-> 1]
  /\ pc' = "Next"
  /\ UNCHANGED <<op, ret>>
  /\ ExecutorUnchanged

\* AggregationExecutor::Next: the group-by values, then the aggregates
AggregationExecutorNext ==
  /\ pc = "Next"
  /\ IF history.aht_iterator_ > Len(history.aht_)
     THEN pc' = "false" /\ UNCHANGED <<ret, history>>
     ELSE /\ ret' = Append(ret, [v \in DOMAIN history.aht_[history.aht_iterator_].key |->
                                   Integer(history.aht_[history.aht_iterator_].key[v])]
                                \o history.aht_[history.aht_iterator_].val)
          /\ history' = [history EXCEPT !.aht_iterator_ = @ + 1]
          /\ pc' = pc
  /\ UNCHANGED op
  /\ ExecutorUnchanged

AggregationNext ==
  \/ AggregationExecutorInit
  \/ AggregationExecutorNext

AggregationSpec == AggregationInit /\ [][AggregationNext]_vars

\* ------------------------------------ index scans one after the other
\* One thread runs queries Limit(IndexScan) on the same index one after the
\* other, each with executors of its own, and inserts and deletes rows between
\* the queries. The variables of IndexScanExecutor::Next declared
\* static thread_local are in history.statics: they belong to the thread, not
\* to an executor. The plan has no filter.
NoStatics ==
  [rids_collected |-> FALSE, static_rids |-> <<>>, static_pos |-> 0,
   last_tree_ptr |-> "nullptr"]

\* the RIDs the index holds: one entry for every row that is not deleted
IndexEntries(table) == IndexRids(table, {i \in DOMAIN table : ~table[i].is_deleted_})

\* IndexScanExecutor::Next, lines 76-99: the statics after the reset for another
\* tree and the collection of the RIDs
Collected(statics, table) ==
  IF statics.last_tree_ptr # "tree_"
  THEN [rids_collected |-> TRUE, static_rids |-> IndexEntries(table), static_pos |-> 0,
        last_tree_ptr |-> "tree_"]
  ELSE IF ~statics.rids_collected
  THEN [statics EXCEPT !.rids_collected = TRUE, !.static_rids = IndexEntries(table),
                       !.static_pos = 0]
  ELSE statics

\* IndexScanExecutor::Next, lines 102-129: the position in static_rids of the
\* next RID whose tuple the table heap has and is not deleted, 0 when none
NextLive(statics, table) ==
  IF \A i \in (statics.static_pos + 1)..Len(statics.static_rids) :
       \/ statics.static_rids[i] \notin DOMAIN table
       \/ table[statics.static_rids[i]].is_deleted_
  THEN 0
  ELSE Lowest({i \in (statics.static_pos + 1)..Len(statics.static_rids) :
                 /\ statics.static_rids[i] \in DOMAIN table
                 /\ ~table[statics.static_rids[i]].is_deleted_})

\* history: the statics of the thread; the members of the executors of the
\* query under way; queries, the queries started; entries, the RIDs the index
\* held when the query under way was initialized
RescanInit ==
  /\ ExecutorOnly
  /\ \E table \in ScanTables, limit \in 1..MaxRows :
         /\ UniqueKeys(table)
         /\ \A i \in DOMAIN table : table[i].values[1] = 1
         /\ op = [table |-> table, limit |-> limit]
  /\ pc = "Init"
  /\ ret = <<>>
  /\ history = [statics |-> NoStatics, is_initialized_ |-> FALSE, scan_finished_ |-> FALSE,
                output_count_ |-> 0, queries |-> 0, entries |-> <<>>]

\* LimitExecutor::Init and IndexScanExecutor::Init of the executors of a new query
LimitInit ==
  /\ pc \in {"Init", "false"}
  /\ history.queries < MaxInits
  /\ history' = [history EXCEPT !.is_initialized_ = TRUE,
                                !.scan_finished_ = FALSE,
                                !.output_count_ = 0,
                                !.queries = @ + 1,
                                !.entries = IndexEntries(op.table)]
  /\ ret' = <<>>
  /\ pc' = "Next"
  /\ UNCHANGED op
  /\ ExecutorUnchanged

\* LimitExecutor::Next, with IndexScanExecutor::Next when the limit is not reached
LimitNext ==
  /\ pc = "Next"
  /\ IF history.output_count_ >= op.limit
     THEN pc' = "false" /\ UNCHANGED <<ret, history>>
     ELSE IF ~history.is_initialized_ \/ history.scan_finished_
     THEN pc' = "false" /\ UNCHANGED <<ret, history>>
     ELSE \E i \in {NextLive(Collected(history.statics, op.table), op.table)} :
            IF i = 0
            THEN /\ pc' = "false"
                 /\ ret' = ret
                 /\ history' = [history EXCEPT !.statics = [NoStatics EXCEPT
                                                              !.last_tree_ptr = "tree_"],
                                               !.scan_finished_ = TRUE]
            ELSE /\ pc' = pc
                 /\ ret' = Append(ret, Collected(history.statics, op.table).static_rids[i])
                 /\ history' = [history EXCEPT
                                  !.statics = [Collected(history.statics, op.table) EXCEPT
                                                 !.static_pos = i],
                                  !.output_count_ = @ + 1]
  /\ UNCHANGED op
  /\ ExecutorUnchanged

\* between two queries a row is inserted into the table and the index
RowInserted(key) ==
  /\ pc = "false"
  /\ Len(op.table) < MaxRows + 1
  /\ \A i \in DOMAIN op.table : ~op.table[i].is_deleted_ => op.table[i].values[0] # key
  /\ op' = [op EXCEPT !.table = Append(@, [values |-> (0 :> key @@ 1 :> 1),
                                            is_deleted_ |-> FALSE])]
  /\ UNCHANGED <<pc, ret, history>>
  /\ ExecutorUnchanged

\* between two queries a row is deleted from the table and the index
RowDeleted(rid) ==
  /\ pc = "false"
  /\ rid \in DOMAIN op.table
  /\ ~op.table[rid].is_deleted_
  /\ op' = [op EXCEPT !.table[rid].is_deleted_ = TRUE]
  /\ UNCHANGED <<pc, ret, history>>
  /\ ExecutorUnchanged

RescanNext ==
  \/ LimitInit
  \/ LimitNext
  \/ \E key \in Cells : RowInserted(key)
  \/ \E rid \in 1..(MaxRows + 1) : RowDeleted(rid)

RescanSpec == RescanInit /\ [][RescanNext]_vars

\* ------------------------------- nested loop join rewritten as hash join
\* The expressions of a join predicate over the columns 0..MaxColumns-1 of the
\* left input (tuple index 0) and of the right input (tuple index 1).
ColumnValueExpression(tuple_idx, col_idx) ==
  [type |-> "ColumnValue", tuple_idx_ |-> tuple_idx, col_idx_ |-> col_idx]
ConstantValueExpression == [type |-> "Constant"]
ComparisonExpression(left, right, comp_type) ==
  [type |-> "Comparison", comp_type_ |-> comp_type, children_ |-> <<left, right>>]
LogicExpression(left, right, logic_type) ==
  [type |-> "Logic", logic_type_ |-> logic_type, children_ |-> <<left, right>>]

Columns ==
  {ColumnValueExpression(tuple_idx, col_idx) :
     tuple_idx \in {0, 1}, col_idx \in 0..(MaxColumns - 1)}
Comparisons ==
  {ComparisonExpression(left, right, comp_type) :
     left \in Columns \cup {ConstantValueExpression},
     right \in Columns \cup {ConstantValueExpression},
     comp_type \in {"Equal", "LessThan"}}
\* four conjuncts to build longer predicates of: an equality of a left and a
\* right column, one written right column first, an equality of two left
\* columns, and a comparison that is no equality
Conjuncted ==
  {ComparisonExpression(ColumnValueExpression(0, 0),
                        ColumnValueExpression(1, MaxColumns - 1), "Equal"),
   ComparisonExpression(ColumnValueExpression(1, 0),
                        ColumnValueExpression(0, MaxColumns - 1), "Equal"),
   ComparisonExpression(ColumnValueExpression(0, 0),
                        ColumnValueExpression(0, MaxColumns - 1), "Equal"),
   ComparisonExpression(ColumnValueExpression(0, 0),
                        ColumnValueExpression(1, MaxColumns - 1), "LessThan")}
TwoConjuncted ==
  {LogicExpression(left, right, logic_type) :
     left \in Conjuncted, right \in Conjuncted, logic_type \in {"And", "Or"}}
JoinPredicates ==
  {NullPtr} \cup Comparisons
    \cup {LogicExpression(left, right, logic_type) :
            left \in Comparisons, right \in Conjuncted, logic_type \in {"And", "Or"}}
    \cup {LogicExpression(left, right, logic_type) :
            left \in Conjuncted, right \in Comparisons, logic_type \in {"And", "Or"}}
    \cup {LogicExpression(left, right, logic_type) :
            left \in TwoConjuncted, right \in Conjuncted, logic_type \in {"And", "Or"}}
    \cup {LogicExpression(left, right, logic_type) :
            left \in Conjuncted, right \in TwoConjuncted, logic_type \in {"And", "Or"}}

NestedLoopJoinPlanNode(predicate, join_type) ==
  [type |-> "NestedLoopJoin", predicate_ |-> predicate, join_type_ |-> join_type]
HashJoinPlanNode(left_key_expressions, right_key_expressions, join_type) ==
  [type |-> "HashJoin", left_key_expressions_ |-> left_key_expressions,
   right_key_expressions_ |-> right_key_expressions, join_type_ |-> join_type]

\* what ExtractEquiConditions returns and the two vectors it was given
Extracted(return, left_exprs, right_exprs) ==
  [return |-> return, left_exprs |-> left_exprs, right_exprs |-> right_exprs]

ExtractOperands(comp_expr, left_exprs, right_exprs) ==
  IF comp_expr.type = "Comparison" /\ comp_expr.comp_type_ = "Equal"
       /\ comp_expr.children_[1].type = "ColumnValue"
       /\ comp_expr.children_[2].type = "ColumnValue"
       /\ comp_expr.children_[1].tuple_idx_ # comp_expr.children_[2].tuple_idx_
  THEN Extracted(TRUE,
                 Append(left_exprs,
                        ColumnValueExpression(0, comp_expr.children_[1].col_idx_)),
                 Append(right_exprs,
                        ColumnValueExpression(0, comp_expr.children_[2].col_idx_)))
  ELSE Extracted(FALSE, left_exprs, right_exprs)
\* ExtractEquiConditions on an expression that is not an AND: an equality of
\* two columns of different tuple index gives one key on either side, the
\* column of tuple index 0 on the left
ExtractEquality(comp_expr, left_exprs, right_exprs) ==
  IF comp_expr.type = "Comparison" /\ comp_expr.comp_type_ = "Equal"
       /\ comp_expr.children_[1].type = "ColumnValue"
       /\ comp_expr.children_[2].type = "ColumnValue"
       /\ comp_expr.children_[1].tuple_idx_ # comp_expr.children_[2].tuple_idx_
  THEN IF comp_expr.children_[1].tuple_idx_ = 0 /\ comp_expr.children_[2].tuple_idx_ = 1
       THEN Extracted(TRUE,
                      Append(left_exprs,
                             ColumnValueExpression(0, comp_expr.children_[1].col_idx_)),
                      Append(right_exprs,
                             ColumnValueExpression(0, comp_expr.children_[2].col_idx_)))
       ELSE IF comp_expr.children_[1].tuple_idx_ = 1 /\ comp_expr.children_[2].tuple_idx_ = 0
       THEN Extracted(TRUE,
                      Append(left_exprs,
                             ColumnValueExpression(0, comp_expr.children_[2].col_idx_)),
                      Append(right_exprs,
                             ColumnValueExpression(0, comp_expr.children_[1].col_idx_)))
       ELSE Extracted(FALSE, left_exprs, right_exprs)
  ELSE Extracted(FALSE, left_exprs, right_exprs)

RECURSIVE ExtractEquiConditions(_, _, _)
RECURSIVE ExtractSecond(_, _)
\* ExtractEquiConditions; the second child of an AND is visited only when the
\* first returned true, with the vectors as the first left them
ExtractEquiConditions(expr, left_exprs, right_exprs) ==
  IF expr.type = "Logic" /\ expr.logic_type_ = "And"
  THEN ExtractSecond(ExtractEquiConditions(expr.children_[1], left_exprs, right_exprs),
                     expr.children_[2])
  ELSE ExtractEquality(expr, left_exprs, right_exprs)

\* the right operand of && in ExtractEquiConditions
ExtractSecond(first, second) ==
  IF first.return
  THEN ExtractEquiConditions(second, first.left_exprs, first.right_exprs)
  ELSE first

\* OptimizeNLJAsHashJoin, lines 113-125, given what ExtractEquiConditions returned
HashJoinOf(nlj_plan, extracted) ==
  IF extracted.return /\ extracted.left_exprs # <<>>
  THEN HashJoinPlanNode(extracted.left_exprs, extracted.right_exprs, nlj_plan.join_type_)
  ELSE nlj_plan

\* Optimizer::OptimizeNLJAsHashJoin of a nested loop join over two scans
OptimizeNLJAsHashJoin(plan) ==
  IF plan.type = "NestedLoopJoin" /\ plan.predicate_ # NullPtr
  THEN HashJoinOf(plan, ExtractEquiConditions(plan.predicate_, <<>>, <<>>))
  ELSE plan

\* op is the plan the planner made, ret the plan the rule returned
RewriteInit ==
  /\ ExecutorOnly
  /\ \E predicate \in JoinPredicates, join_type \in {"INNER", "LEFT"} :
         op = NestedLoopJoinPlanNode(predicate, join_type)
  /\ pc = "Optimize"
  /\ ret = NullPtr
  /\ history = <<>>

Rewrite ==
  /\ pc = "Optimize"
  /\ ret' = OptimizeNLJAsHashJoin(op)
  /\ pc' = "done"
  /\ UNCHANGED <<op, history>>
  /\ ExecutorUnchanged

RewriteNext == Rewrite

RewriteSpec == RewriteInit /\ [][RewriteNext]_vars

\* ------------------------------------ the latches of concurrent tree calls
\* Several threads call the tree at once on a buffer pool with a frame for
\* every page. A call is the sequence of the steps it makes on the buffer
\* pool, op[t].code; every ReadPage and WritePage locks the pool mutex,
\* pins, unlocks and then waits for the frame latch, every Drop releases the
\* latch and then locks the mutex for the replacer. The tree is the one the
\* code can build: no root, or the root leaf, page 1, without an entry. The
\* header page is in frame 0, the root leaf in frame 1.
root_leaf_page_id == 1

ReadPage(page_id) == [i |-> "ReadPage", page_id |-> page_id]
WritePage(page_id) == [i |-> "WritePage", page_id |-> page_id]
Drop(page_id) == [i |-> "Drop", page_id |-> page_id]
Do(i) == [i |-> i, page_id |-> INVALID_PAGE_ID]

\* FindLeafPage on the root leaf and the end of the caller: the guards of ctx
\* are released when the call returns or throws, the leaf first
FindLeafPageThen(end) ==
  <<WritePage(root_leaf_page_id), Drop(root_leaf_page_id), Drop(header_page_id_), Do(end)>>

\* BPlusTree::IsEmpty and the return of its caller on the empty tree
IsEmptyThen(code) ==
  <<ReadPage(header_page_id_), Do("IsEmpty"), Drop(header_page_id_)>> \o code

\* the steps of a call from its start
Code(call) ==
  CASE call = "GetValue" ->
         IsEmptyThen(<<ReadPage(header_page_id_), Drop(header_page_id_),
                       WritePage(header_page_id_)>> \o FindLeafPageThen("return"))
    [] call = "Insert" -> <<WritePage(header_page_id_), Do("Insert:root")>>
    [] call = "Remove" ->
         IsEmptyThen(<<WritePage(header_page_id_)>> \o FindLeafPageThen("return"))
    [] call = "Begin" ->
         IsEmptyThen(<<WritePage(header_page_id_)>> \o FindLeafPageThen("return:iterator"))
    [] call = "BeginKey" -> <<WritePage(header_page_id_), Do("Begin:root")>>
    [] call = "operator++" ->
         <<ReadPage(root_leaf_page_id), Drop(root_leaf_page_id), Do("return:End")>>

Calls == {"GetValue", "Insert", "Remove", "Begin", "BeginKey", "operator++"}

\* the steps that follow a step that looks at the root id in the header page
Branch(i, root_page_id) ==
  CASE i = "IsEmpty" ->
         IF root_page_id = INVALID_PAGE_ID THEN <<Drop(header_page_id_), Do("return")>>
         ELSE <<>>
    [] i = "Insert:root" ->
         IF root_page_id = INVALID_PAGE_ID
         THEN <<Do("NewPage")>> \o FindLeafPageThen("throw")
         ELSE FindLeafPageThen("throw")
    [] i = "Begin:root" ->
         IF root_page_id = INVALID_PAGE_ID THEN <<Do("abort")>>
         ELSE FindLeafPageThen("throw")

LatchFree(latch, i, t) ==
  IF i = "WritePage" THEN latch = [writer |-> NoThread, readers |-> {}]
  ELSE latch.writer = NoThread

LatchInit ==
  /\ num_frames_ = 2
  /\ next_page_id_ = 1
  /\ free_frames_ = <<1>>
  /\ page_table_ = (0 :> 0)
  /\ frames_ = [f \in {0, 1} |-> [pin_count_ |-> 0, is_dirty_ |-> f = 0,
                                  data_ |-> IF f = 0 THEN HeaderPage(INVALID_PAGE_ID) ELSE 0]]
  /\ rwlatch_ = [f \in {0, 1} |-> [writer |-> NoThread, readers |-> {}]]
  /\ bpm_latch_ = NoThread
  /\ replacer_ = <<>>
  /\ request_queue_ = <<>>
  /\ background_thread_ = "running"
  /\ promise = <<>>
  /\ disk = <<>>
  /\ guard = <<>>
  /\ that = <<>>
  /\ pc = [t \in Threads |-> "idle"]
  /\ op = [t \in Threads |-> [call |-> "-", code |-> <<>>, it |-> End]]
  /\ ret = [thread |-> NoThread, call |-> "-", end |-> "-"]
  /\ history = [calls |-> 0]

LatchUnchanged ==
  UNCHANGED <<num_frames_, replacer_, request_queue_, background_thread_, promise, disk,
              guard, that>>

\* a thread starts a call; operator++ is called on an iterator that is not End
Call(t, call) ==
  /\ pc[t] = "idle"
  /\ ~Aborted
  /\ history.calls < MaxCalls
  /\ call = "operator++" => ~IsEnd(op[t].it)
  /\ op' = [op EXCEPT ![t].call = call, ![t].code = Code(call)]
  /\ pc' = [pc EXCEPT ![t] = "run"]
  /\ history' = [history EXCEPT !.calls = @ + 1]
  /\ UNCHANGED <<next_page_id_, free_frames_, page_table_, frames_, rwlatch_, bpm_latch_, ret>>
  /\ LatchUnchanged

\* std::unique_lock lock(*bpm_latch_) in NewPage, CheckedReadPage and
\* CheckedWritePage
LockPool(t) ==
  /\ pc[t] = "run"
  /\ ~Aborted
  /\ Head(op[t].code).i \in {"ReadPage", "WritePage", "NewPage"}
  /\ bpm_latch_ = NoThread
  /\ bpm_latch_' = t
  /\ pc' = [pc EXCEPT ![t] = "locked"]
  /\ UNCHANGED <<next_page_id_, free_frames_, page_table_, frames_, rwlatch_, op, ret, history>>
  /\ LatchUnchanged

\* CheckedReadPage / CheckedWritePage, the branch of the page in the pool: pin
\* when the pin count is 0, unlock the mutex
Pin(t) ==
  /\ pc[t] = "locked"
  /\ ~Aborted
  /\ Head(op[t].code).i \in {"ReadPage", "WritePage"}
  /\ frames_' = [frames_ EXCEPT ![page_table_[Head(op[t].code).page_id]].pin_count_ =
                                   IF @ = 0 THEN 1 ELSE @]
  /\ bpm_latch_' = NoThread
  /\ pc' = [pc EXCEPT ![t] = "latch"]
  /\ UNCHANGED <<next_page_id_, free_frames_, page_table_, rwlatch_, op, ret, history>>
  /\ LatchUnchanged

\* frame->rwlatch_.lock() / lock_shared() and the constructor of the guard
Latch(t) ==
  /\ pc[t] = "latch"
  /\ ~Aborted
  /\ LatchFree(rwlatch_[page_table_[Head(op[t].code).page_id]], Head(op[t].code).i, t)
  /\ rwlatch_' = [rwlatch_ EXCEPT ![page_table_[Head(op[t].code).page_id]] =
                    IF Head(op[t].code).i = "WritePage" THEN [@ EXCEPT !.writer = t]
                    ELSE [@ EXCEPT !.readers = @ \cup {t}]]
  /\ frames_' = [frames_ EXCEPT ![page_table_[Head(op[t].code).page_id]].is_dirty_ =
                                   IF Head(op[t].code).i = "WritePage" THEN TRUE ELSE @]
  /\ op' = [op EXCEPT ![t].code = Tail(@)]
  /\ pc' = [pc EXCEPT ![t] = "run"]
  /\ UNCHANGED <<next_page_id_, free_frames_, page_table_, bpm_latch_, ret, history>>
  /\ LatchUnchanged

\* BufferPoolManager::NewPage from a free frame, and Insert's
\* header->root_page_id_ = ctx.root_page_id_ under the header guard
NewRoot(t) ==
  /\ pc[t] = "locked"
  /\ ~Aborted
  /\ Head(op[t].code).i = "NewPage"
  /\ next_page_id_' = next_page_id_ + 1
  /\ free_frames_' = Tail(free_frames_)
  /\ page_table_' = page_table_ @@ (next_page_id_ :> Head(free_frames_))
  /\ frames_' = [frames_ EXCEPT ![0].data_ = HeaderPage(next_page_id_),
                                ![Head(free_frames_)] =
                                   [pin_count_ |-> 1, is_dirty_ |-> FALSE,
                                    data_ |-> LeafPage(<<>>, <<>>, INVALID_PAGE_ID)]]
  /\ bpm_latch_' = NoThread
  /\ op' = [op EXCEPT ![t].code = Tail(@)]
  /\ pc' = [pc EXCEPT ![t] = "run"]
  /\ UNCHANGED <<rwlatch_, ret, history>>
  /\ LatchUnchanged

\* ReadPageGuard::Drop / WritePageGuard::Drop up to the unlock of the latch
Unlatch(t) ==
  /\ pc[t] = "run"
  /\ ~Aborted
  /\ Head(op[t].code).i = "Drop"
  /\ frames_' = [frames_ EXCEPT ![page_table_[Head(op[t].code).page_id]].pin_count_ =
                                   IF @ > 0 THEN @ - 1 ELSE @]
  /\ rwlatch_' = [rwlatch_ EXCEPT ![page_table_[Head(op[t].code).page_id]] =
                    IF @.writer = t THEN [@ EXCEPT !.writer = NoThread]
                    ELSE [@ EXCEPT !.readers = @ \ {t}]]
  /\ pc' = [pc EXCEPT ![t] = "Drop"]
  /\ UNCHANGED <<next_page_id_, free_frames_, page_table_, bpm_latch_, op, ret, history>>
  /\ LatchUnchanged

\* Drop: std::lock_guard<std::mutex> guard(*bpm_latch_)
LockReplacer(t) ==
  /\ pc[t] = "Drop"
  /\ ~Aborted
  /\ bpm_latch_ = NoThread
  /\ bpm_latch_' = t
  /\ pc' = [pc EXCEPT ![t] = "Drop:locked"]
  /\ UNCHANGED <<next_page_id_, free_frames_, page_table_, frames_, rwlatch_, op, ret, history>>
  /\ LatchUnchanged

\* Drop: RecordAccess, SetEvictable and the end of the block of the mutex
Dropped(t) ==
  /\ pc[t] = "Drop:locked"
  /\ ~Aborted
  /\ bpm_latch_' = NoThread
  /\ op' = [op EXCEPT ![t].code = Tail(@)]
  /\ pc' = [pc EXCEPT ![t] = "run"]
  /\ UNCHANGED <<next_page_id_, free_frames_, page_table_, frames_, rwlatch_, ret, history>>
  /\ LatchUnchanged

\* the call looks at root_page_id_ of the header page under its guard
ReadHeader(t) ==
  /\ pc[t] = "run"
  /\ ~Aborted
  /\ Head(op[t].code).i \in {"IsEmpty", "Insert:root", "Begin:root"}
  /\ op' = [op EXCEPT ![t].code =
              IF Branch(Head(@).i, frames_[0].data_.root_page_id_) = <<>> THEN Tail(@)
              ELSE Branch(Head(@).i, frames_[0].data_.root_page_id_)]
  /\ UNCHANGED <<next_page_id_, free_frames_, page_table_, frames_, rwlatch_, bpm_latch_, pc,
                 ret, history>>
  /\ LatchUnchanged

\* the call returns or throws; Begin() returns the iterator on the root leaf,
\* operator++ leaves the iterator at End
Ended(t) ==
  /\ pc[t] = "run"
  /\ ~Aborted
  /\ Head(op[t].code).i \in {"return", "return:iterator", "return:End", "throw"}
  /\ ret' = [thread |-> t, call |-> op[t].call,
             end |-> IF Head(op[t].code).i = "throw" THEN "throw" ELSE "return"]
  /\ op' = [op EXCEPT ![t].code = <<>>,
                      ![t].it = IF Head(op[t].code).i = "return:iterator"
                                THEN Iterator(root_leaf_page_id, 0)
                                ELSE IF Head(op[t].code).i = "return:End" THEN End ELSE @]
  /\ pc' = [pc EXCEPT ![t] = "idle"]
  /\ UNCHANGED <<next_page_id_, free_frames_, page_table_, frames_, rwlatch_, bpm_latch_,
                 history>>
  /\ LatchUnchanged

\* BufferPoolManager::WritePage(INVALID_PAGE_ID): std::abort() ends the process
Abort(t) ==
  /\ pc[t] = "run"
  /\ ~Aborted
  /\ Head(op[t].code).i = "abort"
  /\ pc' = [pc EXCEPT ![t] = "abort"]
  /\ ret' = [thread |-> t, call |-> op[t].call, end |-> "abort"]
  /\ UNCHANGED <<next_page_id_, free_frames_, page_table_, frames_, rwlatch_, bpm_latch_, op,
                 history>>
  /\ LatchUnchanged

Step(t) ==
  \/ LockPool(t)
  \/ Pin(t)
  \/ Latch(t)
  \/ NewRoot(t)
  \/ Unlatch(t)
  \/ LockReplacer(t)
  \/ Dropped(t)
  \/ ReadHeader(t)
  \/ Ended(t)
  \/ Abort(t)

LatchNext ==
  \/ \E t \in Threads, call \in Calls : Call(t, call)
  \/ \E t \in Threads : Step(t)

LatchSpec == LatchInit /\ [][LatchNext]_vars


\* the bytes of a page: in its frame when the page is resident, else on disk
PageBytes(page_id) ==
  IF page_id \in DOMAIN page_table_ THEN frames_[page_table_[page_id]].data_
  ELSE disk[page_id]

\* C18: with one client and starting from the empty tree, the tree behaves like
\* a map: Insert returns, and returns true exactly when the key is absent from the pairs
\* stored so far (and false otherwise, the pairs staying as they are), and
\* GetValue returns true with exactly the stored value when the key is stored,
\* false with an empty result when it is not, also after a Remove of the key.
C18_MapBehaviour ==
  /\ ret.call = "Insert" => ~ret.thrown /\ ret.ret = history.expect
  /\ ret.call = "GetValue" =>
       IF history.pairs[ret.key] = NoRid
       THEN ~ret.ret /\ ret.result = <<>>
       ELSE ret.ret /\ ret.result = history.pairs[ret.key]

\* C19: a GetValue that runs while another thread inserts and removes returns
\* true when its key has been stored during the whole call and false when its
\* key has been absent during the whole call.
C19_GetValueLinearizable ==
  ret.call = "GetValue" =>
    /\ history.during[ret.thread] = "stored" => ret.ret
    /\ history.during[ret.thread] = "absent" => ~ret.ret

\* C20: when every key that was inserted has been removed again, the root id in
\* the header page is INVALID_PAGE_ID and no page but the header page is left
\* in the page table of the buffer pool.
C20_EmptyTreeFreesPages ==
  (pc[1] = "idle" /\ \A k \in Keys : history.pairs[k] = NoRid) =>
    /\ PageBytes(header_page_id_).root_page_id_ = INVALID_PAGE_ID
    /\ DOMAIN page_table_ \subseteq {header_page_id_}

\* the keys the calls made so far have stored, in ascending order
StoredKeys ==
  CHOOSE s \in [1..Cardinality({k \in Keys : history.pairs[k] # NoRid}) -> Keys] :
    /\ \A i \in DOMAIN s : history.pairs[s[i]] # NoRid
    /\ \A i, j \in DOMAIN s : i < j => s[i] < s[j]

\* C23: an iteration from Begin() with operator++ that no Insert or Remove
\* interrupts has, when it reaches End(), visited exactly the stored keys, each
\* once and in ascending order.
C23_IterationVisitsStoredKeys ==
  (ret.call \in {"Begin", "operator++"} /\ history.fresh /\ IsEnd(ret.it)) =>
    history.visited = StoredKeys

\* C24: Begin(key) returns, for every key and also on the empty tree, the
\* iterator on the first stored entry whose key is at least key, or End() when
\* no stored key is.
C24_BeginKeyPositioned ==
  ret.call = "Begin(key)" =>
    /\ ~Aborted
    /\ ~ret.thrown
    /\ IF \A k \in Keys : history.pairs[k] # NoRid => k < ret.key
       THEN IsEnd(ret.it)
       ELSE /\ ~IsEnd(ret.it)
            /\ KeyUnder(Bpm, ret.it) =
                 Lowest({k \in Keys : history.pairs[k] # NoRid /\ k >= ret.key})

\* C30: an Insert or Remove whose descent ends in a leaf that is safe for it
\* holds, when FindLeafPage has returned, the latch of that leaf only: the
\* latches of the ancestors and of the header page have been released.
C30_SafeChildReleasesAncestors ==
  (ret.call \in {"Insert", "Remove"} /\ ret.descent.safe) =>
    ret.descent.latched = {ret.descent.leaf}

\* C25: when the optimizer has rewritten the filtered sequential scan into an
\* index scan and both plans have been executed to the end, they have returned
\* the same bag of rows.
C25_IndexScanSameRows ==
  (op.optimized.type = "IndexScan" /\ pc.plan = "false" /\ pc.optimized = "false") =>
    SameBag(ret.plan, ret.optimized)

\* the left tuple has a match among the right tuples
Matched(left_tuple) == \E j \in DOMAIN op.right : CompareEquals(left_tuple, op.right[j])

\* C26: when the hash join and the nested loop join of the same two inputs
\* have both been run to the end, for an INNER and for a LEFT join, they have
\* produced the same bag of rows; in a LEFT join every left tuple without a
\* match has been produced exactly once, with NULL on the right, and no other
\* row has NULL on the right.
C26_HashJoinSameRows ==
  (pc.hash = "false" /\ pc.nested = "false") =>
    /\ SameBag(ret.hash, ret.nested)
    /\ \A v \in JoinRows :
         Count(ret.hash, <<v, Null>>) =
           IF op.join_type = "LEFT" /\ ~Matched(v) THEN Count(op.left, v) ELSE 0

\* a LEFT join run to the end by both executors, of a left input with a tuple
\* that has two matches, one that has none and a NULL, and a right input with
\* a NULL
C26_Witness ==
  /\ pc.hash = "false" /\ pc.nested = "false"
  /\ op.join_type = "LEFT"
  /\ \E i, j \in DOMAIN op.left : op.left[i] # Null /\ Matched(op.left[i])
                                   /\ op.left[j] # Null /\ ~Matched(op.left[j])
  /\ \E j \in DOMAIN op.right : op.right[j] = Null
  /\ Len(ret.hash) >= 2

\* the sequence s is in non-decreasing order
NonDecreasing(s) == \A i, j \in DOMAIN s : i < j => s[i][1] <= s[j][1]

\* C27: for any child input, Init of the external merge sort ends with a
\* single run, no call of Next throws, and once Next has returned false the
\* tuples it returned are a permutation of the child's tuples in
\* non-decreasing order of the order-by key.
C27_SortedPermutation ==
  /\ pc # "throw"
  /\ pc \in {"Next", "false"} => Len(history.runs) <= 1 /\ NonDecreasing(ret)
  /\ pc = "false" => SameBag(ret, op.child)

\* C28: after Init(), the first Next() of an Insert, Update or Delete executor
\* returns true with one tuple holding the number of rows its child produced,
\* and every later Next() returns false and leaves the table heap and the
\* index as they were; no Next() ends in an exception.
C28_OneShot ==
  ret.call = "Next" =>
    /\ ~ret.thrown
    /\ IF history.calls = 1
       THEN ret.ret /\ ret.tuple = <<history.rows>>
       ELSE /\ ~ret.ret
            /\ history.before = [table_ |-> history.table_, bpm |-> Bpm]

\* C29: on a child without tuples, an aggregation without group-by columns
\* outputs exactly one row, count(*) = 0 and NULL for every other aggregate,
\* and then ends; with group-by columns it outputs no row.
C29_EmptyInput ==
  op.child = <<>> =>
    /\ Len(ret) <= (IF op.group_bys THEN 0 ELSE 1)
    /\ pc = "false" => Len(ret) = (IF op.group_bys THEN 0 ELSE 1)
    /\ \A i \in DOMAIN ret :
         /\ DOMAIN ret[i] = DOMAIN op.agg_types
         /\ \A j \in DOMAIN ret[i] :
              ret[i][j] = IF op.agg_types[j] = "CountStarAggregate"
                          THEN [is_null |-> FALSE, value |-> 0]
                          ELSE [is_null |-> TRUE, value |-> 0]

\* the aggregation of count(*) and sum over a child without tuples, without
\* group-by columns, has returned its one row and then false
C29_Witness ==
  /\ op.child = <<>>
  /\ ~op.group_bys
  /\ op.agg_types = <<"CountStarAggregate", "SumAggregate">>
  /\ pc = "false"
  /\ Len(ret) = 1

\* C39: a frame in the free list has no record in the replacer, and the
\* replacer's size counts only frames of resident pages whose pin count is 0
\* (checked whenever no call is under way inside the buffer pool).
C39_FreedFrameForgotten ==
  (bpm_latch_ = NoThread /\ \A t \in Threads : pc[t] = "idle") =>
    /\ \A i \in DOMAIN free_frames_ : free_frames_[i] \notin DOMAIN replacer_.node_store_
    /\ \A f \in DOMAIN replacer_.node_store_ :
         replacer_.node_store_[f].is_evictable_ =>
           \E p \in DOMAIN page_table_ :
             page_table_[p] = f /\ frames_[f].pin_count_ = 0

\* C37: the merge passes of the external merge sort pass to DeletePage no page
\* of a run that is still to be merged or of the final run, also when a pass
\* has an odd number of runs and the last one is carried over.
C37_OnlyMergedPagesDeleted ==
  pc \in {"Next", "false"} =>
    /\ history.carried = {}
    /\ Len(history.pages_) = Len(history.final_run_)

\* the first position of key in the predicate keys of the index scan plan
KeyPosition(key) ==
  Lowest({i \in DOMAIN op.optimized.pred_keys_ : op.optimized.pred_keys_[i] = key})

\* C34: an index scan whose plan carries predicate keys has, when Next()
\* returns false, output no tuple whose index key is not among the predicate
\* keys, every tuple that is not deleted and whose key is among them, and the
\* tuples in the order of the predicate keys.
C34_PredicateKeysOnly ==
  (op.optimized.type = "IndexScan" /\ op.optimized.pred_keys_ # <<>>
     /\ pc.optimized = "false") =>
    /\ \A i \in DOMAIN ret.optimized :
         \E k \in DOMAIN op.optimized.pred_keys_ :
           ret.optimized[i][0] = op.optimized.pred_keys_[k]
    /\ \A r \in DOMAIN op.table :
         (/\ ~op.table[r].is_deleted_
          /\ \E k \in DOMAIN op.optimized.pred_keys_ :
               op.table[r].values[0] = op.optimized.pred_keys_[k])
           => \E i \in DOMAIN ret.optimized : ret.optimized[i] = op.table[r].values
    /\ \A i, j \in DOMAIN ret.optimized :
         i < j => KeyPosition(ret.optimized[i][0]) <= KeyPosition(ret.optimized[j][0])

\* C35: after Init(), the RIDs an index scan returns are the entries its index
\* held at Init() from the first one on, whatever an earlier scan of the same
\* thread on the same index did: those returned so far are its first entries,
\* and when the query under a Limit has ended they are all of them or as many
\* as the limit.
C35_ScanStartsAtFirstEntry ==
  pc \in {"Next", "false"} =>
    /\ Len(ret) <= Len(history.entries)
    /\ ret = SubSeq(history.entries, 1, Len(ret))
    /\ pc = "false" =>
         Len(ret) = (IF Len(history.entries) < op.limit THEN Len(history.entries)
                     ELSE op.limit)

\* C36: the external merge sort is stable: once Next has returned false, the
\* tuples it returned are the child's tuples in non-decreasing order of the
\* key, and tuples of equal key stand in the order the child produced them.
C36_StableSort ==
  pc = "false" =>
    /\ SameBag(ret, op.child)
    /\ \A i, j \in DOMAIN ret :
         i < j => \/ ret[i][1] < ret[j][1]
                  \/ ret[i][1] = ret[j][1] /\ ret[i][2] < ret[j][2]

RECURSIVE Conjuncts(_)
\* the expressions a predicate is the conjunction of, from left to right
Conjuncts(expr) ==
  IF expr.type = "Logic" /\ expr.logic_type_ = "And"
  THEN Conjuncts(expr.children_[1]) \o Conjuncts(expr.children_[2])
  ELSE <<expr>>

\* expr is an equality of a column of the left input and a column of the right
\* input, in either order
LeftRightEquality(expr) ==
  /\ expr.type = "Comparison"
  /\ expr.comp_type_ = "Equal"
  /\ \E i \in 1..2 :
       /\ expr.children_[i].type = "ColumnValue" /\ expr.children_[i].tuple_idx_ = 0
       /\ expr.children_[3 - i].type = "ColumnValue" /\ expr.children_[3 - i].tuple_idx_ = 1

\* the column of the equality expr that belongs to the input tuple_idx
ColumnOf(expr, tuple_idx) ==
  IF expr.children_[1].tuple_idx_ = tuple_idx THEN expr.children_[1].col_idx_
  ELSE expr.children_[2].col_idx_

\* C40: the rule returns a hash join exactly when the predicate is a
\* conjunction of one or more equalities of a left column and a right column;
\* its i-th left key is then the left column and its i-th right key the right
\* column of the i-th equality, and the join type is kept; for any other
\* predicate it returns the nested loop join as it was.
C40_HashJoinIffEquiJoin ==
  pc = "done" =>
    IF op.predicate_ # NullPtr
         /\ \A i \in DOMAIN Conjuncts(op.predicate_) :
              LeftRightEquality(Conjuncts(op.predicate_)[i])
    THEN /\ ret.type = "HashJoin"
         /\ ret.join_type_ = op.join_type_
         /\ DOMAIN ret.left_key_expressions_ = DOMAIN Conjuncts(op.predicate_)
         /\ DOMAIN ret.right_key_expressions_ = DOMAIN Conjuncts(op.predicate_)
         /\ \A i \in DOMAIN Conjuncts(op.predicate_) :
              /\ ret.left_key_expressions_[i]
                   = ColumnValueExpression(0, ColumnOf(Conjuncts(op.predicate_)[i], 0))
              /\ ret.right_key_expressions_[i]
                   = ColumnValueExpression(0, ColumnOf(Conjuncts(op.predicate_)[i], 1))
    ELSE ret = op

\* a conjunction of three equalities, one of them written right column first,
\* was rewritten
C40_Witness ==
  /\ pc = "done"
  /\ ret.type = "HashJoin"
  /\ Len(ret.left_key_expressions_) = 3
  /\ \E i \in DOMAIN Conjuncts(op.predicate_) :
       Conjuncts(op.predicate_)[i].children_[1].tuple_idx_ = 1

Unfinished(t) == pc[t] \notin {"idle", "abort"}

\* thread t waits for the buffer pool mutex or for a frame latch that it
\* cannot take
Blocked(t) ==
  \/ /\ pc[t] = "run"
     /\ Head(op[t].code).i \in {"ReadPage", "WritePage", "NewPage"}
     /\ bpm_latch_ # NoThread
  \/ pc[t] = "Drop" /\ bpm_latch_ # NoThread
  \/ /\ pc[t] = "latch"
     /\ ~LatchFree(rwlatch_[page_table_[Head(op[t].code).page_id]], Head(op[t].code).i, t)

\* C31: every call of a set of concurrent calls returns: none ends by an
\* exception or by the end of the process, and no reachable state has a call
\* under way while every thread that is inside a call waits for a frame latch
\* or for the buffer pool mutex.
C31_AllReturn ==
  /\ ret.end \in {"-", "return"}
  /\ ~(/\ \E t \in Threads : Unfinished(t)
       /\ \A t \in Threads : Unfinished(t) => Blocked(t))


====
